---- MODULE Spec2Model ----
(***************************************************************************)
(* Multi-database connection lifecycle of the go-chi transactions API:     *)
(* startup connect loop (cmd/main.go), retrying openDatabase, the database *)
(* middleware (cmd/api.go) with its lazy getOrConnectDB, and the           *)
(* background health checker (reference_code).                             *)
(*                                                                         *)
(* Every critical section is two steps: the step that takes the lock and   *)
(* touches the map, and the step that releases the lock.  Network I/O      *)
(* (sql.Open, PingContext) is a step of its own whose outcome is decided   *)
(* by the environment variable env at that moment.                         *)
(***************************************************************************)
EXTENDS Integers, Sequences, FiniteSets, TLC

\* ------------------------------------------------------------------ bounds
MaxHandles == 3     \* *sql.DB objects alive at the same time
MaxTime == 30       \* last value of the clock (seconds)
TickStep == 15      \* seconds the clock advances per Tick (less at MaxTime)
MaxRows == 2        \* rows of a TRANSACTIONS table

\* ------------------------------------------------------- program constants
maxRetries == 3     \* const maxRetries in openDatabase
BackoffWindow == 30 \* seconds a recorded failure suppresses reconnects

\* keys of app.cfg.databases (lower-cased ids of the loaded configuration)
databases == {"a", "b"}

\* values of the {database_id} path segment
PathIds == {"A", "a", "b", "x"}

\* strings.ToLower on the path segments above
ToLower(s) ==
  CASE s = "A" -> "a"
    [] s = "B" -> "b"
    [] s = "X" -> "x"
    [] OTHER -> s

Reqs == {"r1", "r2"}          \* one goroutine per in-flight HTTP request
HC == "hc"                    \* startDatabaseHealthChecker goroutine
MAIN == "main"                \* main goroutine
Procs == Reqs \cup {HC, MAIN}

\* r.Method of the requests that are sent
Methods == {"GET", "POST", "DELETE"}

\* raw values of the page and page_size query parameters, as the characters
\* of the string; <<>> is the parameter left out (Query().Get returns "")
QueryValues ==
  { <<>>, <<"a">>, <<"0">>, <<"1">>, <<"2">>, <<"-", "1">>, <<"+", "3">>,
    <<"0", "5">>, <<"1", "0", "0">>, <<"1", "0", "1">>, <<"2", "x">>,
    <<"9", "9", "9", "9", "9", "9", "9", "9", "9", "9",
      "9", "9", "9", "9", "9", "9", "9", "9", "9", "9">> }

\* raw values of page that reach past the rows of every table; the last one
\* times a page size of 4 or 20 exceeds a 32 bit int (4611686018427387905
\* does the same to a 64 bit int)
PageValues ==
  { <<>>, <<"1">>, <<"2">>, <<"3">>, <<"4">>,
    <<"1", "0", "7", "3", "7", "4", "1", "8", "2", "5">> }

\* raw values of page_size next to them
SizeValues == { <<>>, <<"1">>, <<"2">>, <<"4">> }

\* transaction_date texts of request bodies
Jan15 == <<"2", "0", "2", "4", "-", "0", "1", "-", "1", "5">>
Jan20 == <<"2", "0", "2", "4", "-", "0", "1", "-", "2", "0">>
Feb30 == <<"2", "0", "2", "4", "-", "0", "2", "-", "3", "0">>
UsDate == <<"0", "1", "/", "1", "5", "/", "2", "0", "2", "4">>
NoDate == <<"i", "n", "v", "a", "l", "i", "d", "-", "d", "a", "t", "e">>

\* err.Error() texts of the Oracle driver
DriverTexts == {"ORA-12541", "ORA-01017"}

\* largest int strconv.Atoi returns on a build with 32 bit ints; every
\* numeral of QueryValues either fits or overflows 64 bit ints as well
IntMax == 2147483647

NoHandle == 0                 \* nil *sql.DB / no map entry
NoFail == -1                  \* no entry in the failure record
NoProc == "none"              \* lock not held for writing
NoId == "-"                   \* no database id bound

\* strconv.Atoi: an optional sign, then decimal digits only; a syntax or
\* range error leaves err set.  (The one value a negative numeral can reach
\* beyond -IntMax is not told apart; no numeral of QueryValues is near it.)
Digits == {"0", "1", "2", "3", "4", "5", "6", "7", "8", "9"}

DigitVal(c) ==
  CASE c = "0" -> 0 [] c = "1" -> 1 [] c = "2" -> 2 [] c = "3" -> 3
    [] c = "4" -> 4 [] c = "5" -> 5 [] c = "6" -> 6 [] c = "7" -> 7
    [] c = "8" -> 8 [] c = "9" -> 9

RECURSIVE ParseDigits(_, _)
\* the value of the digits s after acc, -1 when it exceeds IntMax
ParseDigits(s, acc) ==
  IF s = <<>> THEN acc
  ELSE LET d == DigitVal(Head(s)) IN
       IF acc > (IntMax - d) \div 10 THEN -1
       ELSE ParseDigits(Tail(s), acc * 10 + d)

Atoi(s) ==
  LET signed == s # <<>> /\ Head(s) \in {"+", "-"}
      body == IF signed THEN Tail(s) ELSE s
  IN IF body = <<>> \/ \E i \in 1..Len(body) : body[i] \notin Digits
       THEN [err |-> TRUE, n |-> 0]
       ELSE LET v == ParseDigits(body, 0) IN
            IF v = -1 THEN [err |-> TRUE, n |-> IntMax]
            ELSE [err |-> FALSE, n |-> IF Head(s) = "-" THEN 0 - v ELSE v]

\* ---------------------------------------------------------- configuration
\* an environment variable that is not set, and one that is set to v; the
\* name of a variable is given split at "_", its value as characters
Unset == [set |-> FALSE, val |-> <<>>]

Set(v) == [set |-> TRUE, val |-> v]

\* os.Getenv: the value of the variable, empty when it is not set
Getenv(e, key) ==
  IF key \in DOMAIN e /\ e[key].set THEN e[key].val ELSE <<>>

\* fmt.Sprintf("ORA_%s_<suffix>", dbID)
EnvKey(dbID, suffix) == <<"ORA">> \o dbID \o <<suffix>>

\* strings.ToLower(dbID)
LowerID(dbID) == [i \in 1..Len(dbID) |-> ToLower(dbID[i])]

\* first pass: of every variable ORA_<parts> with two parts or more, all
\* parts but the last
foundIDs(e) ==
  {SubSeq(k, 2, Len(k) - 1) :
     k \in {n \in DOMAIN e : e[n].set /\ n[1] = "ORA" /\ Len(n) - 1 >= 2}}

\* port := 1521 // default Oracle port
DefaultPort == 1521

\* DatabaseConfig{ID: strings.ToLower(dbID)}: the other fields keep Go's
\* zero values; the struct has no field for the connection string
DSNConfig(dbID) ==
  [ID |-> LowerID(dbID), Host |-> <<>>, Port |-> 0, SID |-> <<>>,
   User |-> <<>>, Password |-> <<>>]

\* DatabaseConfig of the five component variables of dbID
ComponentConfig(e, dbID) ==
  LET portStr == Getenv(e, EnvKey(dbID, "PORT"))
      p == Atoi(portStr)
  IN [ID |-> LowerID(dbID),
      Host |-> Getenv(e, EnvKey(dbID, "HOST")),
      Port |-> IF portStr # <<>> /\ ~p.err THEN p.n ELSE DefaultPort,
      SID |-> Getenv(e, EnvKey(dbID, "SID")),
      User |-> Getenv(e, EnvKey(dbID, "USER")),
      Password |-> Getenv(e, EnvKey(dbID, "PASSWORD"))]

\* second pass: the map returned, as the set of its entries
loadDatabaseConfigs(e) ==
  LET dsnIDs == {id \in foundIDs(e) : Getenv(e, EnvKey(id, "DSN")) # <<>>}
      incomplete(id) ==
        \/ Getenv(e, EnvKey(id, "HOST")) = <<>>
        \/ Getenv(e, EnvKey(id, "SID")) = <<>>
        \/ Getenv(e, EnvKey(id, "USER")) = <<>>
        \/ Getenv(e, EnvKey(id, "PASSWORD")) = <<>>
  IN {[key |-> LowerID(id), cfg |-> DSNConfig(id)] : id \in dsnIDs}
       \cup {[key |-> LowerID(id), cfg |-> ComponentConfig(e, id)] :
               id \in {i \in foundIDs(e) \ dsnIDs : ~incomplete(i)}}

\* the five component variables of dbID
Components(dbID, host, port, sid, user, password) ==
  EnvKey(dbID, "HOST") :> host @@ EnvKey(dbID, "PORT") :> port
    @@ EnvKey(dbID, "SID") :> sid @@ EnvKey(dbID, "USER") :> user
    @@ EnvKey(dbID, "PASSWORD") :> password

\* values of the variables
HostText == <<"d", "b", "1">>
SidText == <<"X", "E">>
UserText == <<"a", "p", "p">>
PasswordText == <<"p", "w">>
DsnText == <<"o", "r", "a", "c", "l", "e", ":", "/", "/", "d", "b", "1">>
PortTexts == {<<"1", "5", "2", "2">>, <<"a", "b", "c">>}

\* the environment the databases a and b are configured by
BootEnviron ==
  Components(<<"A">>, Set(HostText), Unset, Set(SidText), Set(UserText),
             Set(PasswordText))
    @@ Components(<<"B">>, Set(HostText), Unset, Set(SidText),
                  Set(UserText), Set(PasswordText))

\* nothing written to the http.ResponseWriter yet
NoReply ==
  [by |-> "-", code |-> 0, status |-> "-", total |-> 0, healthy |-> 0,
   page |-> 0, pageSize |-> 0, rows |-> <<>>, text |-> {}]

\* the query string without page and page_size
NoQuery == [page |-> <<>>, page_size |-> <<>>]

\* a request whose body json.Decode rejects (an empty body among them);
\* every body is given as what Decode makes of it, quantity in whole units
NoBody ==
  [json |-> FALSE, coin_symbol |-> "", transaction_type |-> "",
   quantity |-> 0, transaction_date |-> <<>>]

\* a body json.Decode accepts
Body(coin, type, qty, date) ==
  [json |-> TRUE, coin_symbol |-> coin, transaction_type |-> type,
   quantity |-> qty, transaction_date |-> date]

\* request bodies: well-formed ones, ones that fail one check, ones that
\* fail several
PostBodies ==
  { NoBody,
    Body("BTC", "BUY", 1, Jan15),
    Body("BTC", "BUY", 1, UsDate),
    Body("BTC", "BUY", 1, NoDate),
    Body("BTC", "BUY", 1, Feb30),
    Body("BTC", "BUY", 1, <<>>),
    Body("", "BUY", 1, Jan15),
    Body("", "", 0, UsDate),
    Body("BTC", "", 0 - 1, Jan15) }

VARIABLES
  env,          \* env[id]: "up" (open and ping succeed) or "down"
  now,          \* wall clock, seconds
  dbs,          \* app.dbs: id -> handle, NoHandle when absent
  dbFailures,   \* failure record: id -> time of last failure, NoFail if none
  handles,      \* the *sql.DB objects: slot -> [db, st, closes]
  poolW, poolR, \* app.dbMutex: writer, set of readers
  failW, failR, \* lock of the failure record: writer, set of readers
  pc,           \* program position of every goroutine
  dbID,         \* database id a goroutine is working on
  hloc,         \* local variable db of a goroutine
  attempt,      \* loop variable attempt of openDatabase
  lastProbe,    \* the goroutine's latest ping: none, probeOk/probeFail (2 s probe
                \* of a pooled handle), pingOk/pingFail (openDatabase's 5 s ping)
  recent,       \* request-local: failure record was inside the window
  gcResult,     \* what getOrConnectDB returned to the request
  resp,         \* what the middleware did with the request
  hcTodo,       \* configured ids the current sweep has not visited yet
  mainTodo,     \* configured ids the startup loop has not visited yet
  successCount, \* main's successCount
  method,       \* r.Method of the request a goroutine serves
  query,        \* r.URL.Query(): the raw page and page_size parameters
  reply,        \* status code and JSON body the handler wrote
  repoArgs,     \* (page, pageSize) passed to repository.ListTransactions
  cancelled,    \* the context of the health checker is cancelled
  table,        \* table[id]: the rows of TRANSACTIONS in database id
  nextSeq,      \* nextSeq[id]: what TRANSACTIONS_SEQ.NEXTVAL returns next
  reqBody,      \* r.Body of the request a goroutine serves
  dbCall,       \* how the repository call made for the request ended
  errText,      \* err.Error() of the driver while a database is down
  environ,      \* os.Environ(): variable name (split at "_") -> value
  configs       \* what loadDatabaseConfigs returned, once main called it

vars == <<env, now, dbs, dbFailures, handles, poolW, poolR, failW, failR,
          pc, dbID, hloc, attempt, lastProbe, recent, gcResult, resp,
          hcTodo, mainTodo, successCount, method, query, reply, repoArgs,
          cancelled, table, nextSeq, reqBody, dbCall, errText, environ,
          configs>>

locks == <<poolW, poolR, failW, failR>>
reqLocals == <<recent, gcResult, resp>>
hcLocals == <<hcTodo>>
mainLocals == <<mainTodo, successCount>>
world == <<env, now>>
httpLocals == <<method, query, reply, repoArgs>>
cfgLocals == <<environ, configs>>
dataLocals == <<table, nextSeq, reqBody, dbCall, errText, cfgLocals>>

\* ------------------------------------------------------------ *sql.DB
\* a slot holding no object
FreeSlot == [db |-> NoId, st |-> "free", closes |-> 0]

Slots == 1..MaxHandles
HasFree == \E h \in Slots : handles[h].st = "free"
\* the object sql.Open allocates
NewSlot ==
  CHOOSE h \in Slots :
    handles[h].st = "free" /\ \A g \in Slots : g < h => handles[g].st # "free"

\* sql.Open succeeded: a new open *sql.DB for database d in slot h
Open(hs, h, d) == [hs EXCEPT ![h] = [db |-> d, st |-> "open", closes |-> 0]]

\* db.Close(): closing twice is counted (capped at 2)
Close(hs, h) ==
  [hs EXCEPT ![h] = [@ EXCEPT !.st = "closed",
                              !.closes = IF @ < 2 THEN @ + 1 ELSE 2]]

\* Go's garbage collector: a closed *sql.DB that neither the pool map nor a
\* goroutine's local variable refers to is gone
Collect(hs, pool, locals) ==
  [h \in Slots |->
     IF /\ hs[h].st = "closed"
        /\ \A d \in DOMAIN pool : pool[d] # h
        /\ \A p \in DOMAIN locals : locals[p] # h
       THEN FreeSlot ELSE hs[h]]

IsOpen(h) == h # NoHandle /\ handles[h].st = "open"

\* db.PingContext on handle h of database d
PingOK(h, d) == IsOpen(h) /\ env[d] = "up"

\* err.Error() of a failed db.PingContext on handle h: database/sql's own
\* message on a closed handle, the driver's otherwise
PingError(h) ==
  IF IsOpen(h) THEN errText ELSE "sql: database is closed"

\* everything but the contents of the databases and the driver's wording
InitProgram ==
  /\ env \in [databases -> {"up", "down"}]
  /\ now = 0
  /\ dbs = [d \in databases |-> NoHandle]
  /\ dbFailures = [d \in databases |-> NoFail]
  /\ handles = [h \in 1..MaxHandles |-> FreeSlot]
  /\ poolW = NoProc /\ poolR = {}
  /\ failW = NoProc /\ failR = {}
  /\ pc = [p \in Procs |-> IF p = MAIN THEN "boot"
                           ELSE IF p = HC THEN "hcOff" ELSE "off"]
  /\ dbID = [p \in Procs |-> NoId]
  /\ hloc = [p \in Procs |-> NoHandle]
  /\ attempt = [p \in Procs |-> 0]
  /\ lastProbe = [p \in Procs |-> "none"]
  /\ recent = [p \in Reqs |-> FALSE]
  /\ gcResult = [p \in Reqs |-> "none"]
  /\ resp = [p \in Reqs |-> "none"]
  /\ hcTodo = {}
  /\ mainTodo = databases
  /\ successCount = 0
  /\ method = [p \in Reqs |-> "GET"]
  /\ query = [p \in Reqs |-> NoQuery]
  /\ reply = [p \in Reqs |-> NoReply]
  /\ repoArgs = [p \in Reqs |-> <<>>]
  /\ cancelled = FALSE
  /\ reqBody = [p \in Reqs |-> NoBody]
  /\ dbCall = [p \in Reqs |-> "none"]

\* main has loaded the configuration of the databases a and b
InitLoaded ==
  /\ InitProgram
  /\ environ = BootEnviron
  /\ configs = [loaded |-> TRUE, map |-> loadDatabaseConfigs(BootEnviron)]

\* the state after construction, every TRANSACTIONS table empty
Init ==
  /\ InitLoaded
  /\ table = [d \in databases |-> {}]
  /\ nextSeq = [d \in databases |-> 1]
  /\ errText = "ORA-12541"

\* the state after construction, the driver wording its errors either way
InitTexts ==
  /\ InitLoaded
  /\ table = [d \in databases |-> {}]
  /\ nextSeq = [d \in databases |-> 1]
  /\ errText \in DriverTexts

\* ------------------------------------------------------------ environment
\* a database goes down or comes back
EnvFlip(d) ==
  /\ env' = [env EXCEPT ![d] = IF env[d] = "up" THEN "down" ELSE "up"]
  /\ UNCHANGED <<now, dbs, dbFailures, handles, locks, pc, dbID, hloc,
                 attempt, lastProbe, reqLocals, hcLocals, mainLocals>>
  /\ UNCHANGED <<httpLocals, cancelled, dataLocals>>

\* time passes
Tick ==
  /\ now < MaxTime
  /\ now' = IF now + TickStep <= MaxTime THEN now + TickStep ELSE MaxTime
  /\ UNCHANGED <<env, dbs, dbFailures, handles, locks, pc, dbID, hloc,
                 attempt, lastProbe, reqLocals, hcLocals, mainLocals>>
  /\ UNCHANGED <<httpLocals, cancelled, dataLocals>>

\* a database that is down comes back (and, where no other step takes it
\* down, stays reachable from then on)
EnvUp(d) ==
  /\ env[d] = "down"
  /\ env' = [env EXCEPT ![d] = "up"]
  /\ UNCHANGED <<now, dbs, dbFailures, handles, locks, pc, dbID, hloc,
                 attempt, lastProbe, reqLocals, hcLocals, mainLocals>>
  /\ UNCHANGED <<httpLocals, cancelled, dataLocals>>

\* ------------------------------------------------------------ openDatabase
\* One iteration of the retry loop for goroutine p: sql.Open, pool limits,
\* PingContext with a 5 second deadline, db.Close() when the ping fails.
\* A database that is up opens and pings; one that is down fails either at
\* sql.Open (no handle) or at the ping (handle opened, then closed).
\* openDatabase that closes the verified handle before returning it (a
\* deferred db.Close())
openDatabase_ClosesOnSuccess(p, okPc, failPc) ==
  LET d == dbID[p] IN
  \/ /\ env[d] = "up"
     /\ HasFree
     /\ handles' = Close(Open(handles, NewSlot, d), NewSlot)
     /\ hloc' = [hloc EXCEPT ![p] = NewSlot]
     /\ lastProbe' = [lastProbe EXCEPT ![p] = "pingOk"]
     /\ attempt' = [attempt EXCEPT ![p] = 0]
     /\ pc' = [pc EXCEPT ![p] = okPc]
  \/ /\ env[d] = "down"
     /\ hloc' = [hloc EXCEPT ![p] = NoHandle]
     /\ \E openOk \in BOOLEAN :
          IF openOk
            THEN /\ HasFree
                 /\ handles' = Collect(Close(Open(handles, NewSlot, d), NewSlot),
                                       dbs, hloc')
                 /\ lastProbe' = [lastProbe EXCEPT ![p] = "pingFail"]
            ELSE /\ handles' = handles
                 /\ lastProbe' = lastProbe
     /\ IF attempt[p] < maxRetries
          THEN /\ attempt' = [attempt EXCEPT ![p] = @ + 1]
               /\ pc' = pc
          ELSE /\ attempt' = [attempt EXCEPT ![p] = 0]
               /\ pc' = [pc EXCEPT ![p] = failPc]

\* openDatabase that ignores the error of PingContext: whatever sql.Open
\* returned is handed to the caller
openDatabase_IgnorePingError(p, okPc, failPc) ==
  LET d == dbID[p] IN
  \/ /\ HasFree
     /\ handles' = Open(handles, NewSlot, d)
     /\ hloc' = [hloc EXCEPT ![p] = NewSlot]
     /\ lastProbe' = [lastProbe EXCEPT ![p] = IF env[d] = "up" THEN "pingOk"
                                              ELSE "pingFail"]
     /\ attempt' = [attempt EXCEPT ![p] = 0]
     /\ pc' = [pc EXCEPT ![p] = okPc]
  \/ /\ env[d] = "down"
     /\ hloc' = [hloc EXCEPT ![p] = NoHandle]
     /\ handles' = handles
     /\ lastProbe' = lastProbe
     /\ IF attempt[p] < maxRetries
          THEN /\ attempt' = [attempt EXCEPT ![p] = @ + 1]
               /\ pc' = pc
          ELSE /\ attempt' = [attempt EXCEPT ![p] = 0]
               /\ pc' = [pc EXCEPT ![p] = failPc]

\* openDatabase that leaves the handle open when PingContext fails (no
\* db.Close() before the retry)
openDatabase_LeaksOnPingFail(p, okPc, failPc) ==
  LET d == dbID[p] IN
  \/ /\ env[d] = "up"
     /\ HasFree
     /\ handles' = Open(handles, NewSlot, d)
     /\ hloc' = [hloc EXCEPT ![p] = NewSlot]
     /\ lastProbe' = [lastProbe EXCEPT ![p] = "pingOk"]
     /\ attempt' = [attempt EXCEPT ![p] = 0]
     /\ pc' = [pc EXCEPT ![p] = okPc]
  \/ /\ env[d] = "down"
     /\ hloc' = [hloc EXCEPT ![p] = NoHandle]
     /\ \E openOk \in BOOLEAN :
          IF openOk
            THEN /\ HasFree
                 /\ handles' = Open(handles, NewSlot, d)
                 /\ lastProbe' = [lastProbe EXCEPT ![p] = "pingFail"]
            ELSE /\ handles' = handles
                 /\ lastProbe' = lastProbe
     /\ IF attempt[p] < maxRetries
          THEN /\ attempt' = [attempt EXCEPT ![p] = @ + 1]
               /\ pc' = pc
          ELSE /\ attempt' = [attempt EXCEPT ![p] = 0]
               /\ pc' = [pc EXCEPT ![p] = failPc]

\* openDatabase: one iteration of the retry loop (see above)
openDatabase(p, okPc, failPc) ==
  LET d == dbID[p] IN
  \/ /\ env[d] = "up"
     /\ HasFree
     /\ handles' = Open(handles, NewSlot, d)
     /\ hloc' = [hloc EXCEPT ![p] = NewSlot]
     /\ lastProbe' = [lastProbe EXCEPT ![p] = "pingOk"]
     /\ attempt' = [attempt EXCEPT ![p] = 0]
     /\ pc' = [pc EXCEPT ![p] = okPc]
  \/ /\ env[d] = "down"
     /\ hloc' = [hloc EXCEPT ![p] = NoHandle]
     /\ \E openOk \in BOOLEAN :
          IF openOk
            THEN /\ HasFree
                 /\ handles' = Collect(Close(Open(handles, NewSlot, d), NewSlot),
                                       dbs, hloc')
                 /\ lastProbe' = [lastProbe EXCEPT ![p] = "pingFail"]
            ELSE /\ handles' = handles
                 /\ lastProbe' = lastProbe
     /\ IF attempt[p] < maxRetries
          THEN /\ attempt' = [attempt EXCEPT ![p] = @ + 1]
               /\ pc' = pc
          ELSE /\ attempt' = [attempt EXCEPT ![p] = 0]
               /\ pc' = [pc EXCEPT ![p] = failPc]

\* ------------------------------------------------------------ main
\* for dbID, dbConfig := range app.cfg.databases: pick the next id
MainNext ==
  /\ pc[MAIN] = "boot"
  /\ mainTodo # {}
  /\ \E d \in mainTodo :
       /\ mainTodo' = mainTodo \ {d}
       /\ dbID' = [dbID EXCEPT ![MAIN] = d]
  /\ attempt' = [attempt EXCEPT ![MAIN] = 1]
  /\ pc' = [pc EXCEPT ![MAIN] = "mconnect"]
  /\ UNCHANGED <<world, dbs, dbFailures, handles, locks, hloc, lastProbe,
                 reqLocals, hcLocals, successCount>>
  /\ UNCHANGED <<httpLocals, cancelled, dataLocals>>

\* db, err := openDatabase("oracle", dsn, dbID); on error: continue
MainConnect ==
  /\ pc[MAIN] = "mconnect"
  /\ openDatabase(MAIN, "mstore", "boot")
  /\ UNCHANGED <<world, dbs, dbFailures, locks, dbID, reqLocals, hcLocals,
                 mainLocals>>
  /\ UNCHANGED <<httpLocals, cancelled, dataLocals>>

\* app.dbs[dbID] = db; successCount++
MainStore ==
  /\ pc[MAIN] = "mstore"
  /\ dbs' = [dbs EXCEPT ![dbID[MAIN]] = hloc[MAIN]]
  /\ successCount' = successCount + 1
  /\ hloc' = [hloc EXCEPT ![MAIN] = NoHandle]
  /\ lastProbe' = [lastProbe EXCEPT ![MAIN] = "none"]
  /\ pc' = [pc EXCEPT ![MAIN] = "boot"]
  /\ UNCHANGED <<world, dbFailures, handles, locks, dbID, attempt,
                 reqLocals, hcLocals, mainTodo>>
  /\ UNCHANGED <<httpLocals, cancelled, dataLocals>>

\* dbConfigs := loadDatabaseConfigs(); if len(dbConfigs) == 0 { os.Exit(1) }
MainLoadConfigs ==
  /\ pc[MAIN] = "boot"
  /\ ~configs.loaded
  /\ configs' = [loaded |-> TRUE, map |-> loadDatabaseConfigs(environ)]
  /\ pc' = [pc EXCEPT ![MAIN] = IF loadDatabaseConfigs(environ) = {}
                                  THEN "exited" ELSE "boot"]
  /\ UNCHANGED <<world, dbs, dbFailures, handles, locks, dbID, hloc, attempt,
                 lastProbe, reqLocals, hcLocals, mainLocals>>
  /\ UNCHANGED <<httpLocals, cancelled, table, nextSeq, reqBody, dbCall,
                 errText, environ>>

\* if successCount == 0 { os.Exit(1) }
MainExit ==
  /\ pc[MAIN] = "boot"
  /\ mainTodo = {}
  /\ successCount = 0
  /\ pc' = [pc EXCEPT ![MAIN] = "exited"]
  /\ UNCHANGED <<world, dbs, dbFailures, handles, locks, dbID, hloc, attempt,
                 lastProbe, reqLocals, hcLocals, mainLocals>>
  /\ UNCHANGED <<httpLocals, cancelled, dataLocals>>

\* go app.startDatabaseHealthChecker(ctx); app.serve()
MainServe ==
  /\ pc[MAIN] = "boot"
  /\ mainTodo = {}
  /\ successCount # 0
  /\ pc' = [p \in Procs |-> IF p = MAIN THEN "serving"
                            ELSE IF p = HC THEN "hcWait" ELSE "idle"]
  /\ dbID' = [dbID EXCEPT ![MAIN] = NoId]
  /\ lastProbe' = [lastProbe EXCEPT ![MAIN] = "none"]
  /\ UNCHANGED <<world, dbs, dbFailures, handles, locks, hloc, attempt,
                 reqLocals, hcLocals, mainLocals>>
  /\ UNCHANGED <<httpLocals, cancelled, dataLocals>>

\* ------------------------------------------------------------ locks
HoldsPool(p) == poolW = p \/ p \in poolR
HoldsFail(p) == failW = p \/ p \in failR
CanRLockPool == poolW = NoProc
CanLockPool == poolW = NoProc /\ poolR = {}
CanRLockFail == failW = NoProc
CanLockFail == failW = NoProc /\ failR = {}

\* ------------------------------------------------------------ middleware
\* the middleware that calls next whatever getOrConnectDB returned
Return_NextOnError(p, res) ==
  /\ pc' = [pc EXCEPT ![p] = "idle"]
  /\ gcResult' = [gcResult EXCEPT ![p] = res]
  /\ resp' = [resp EXCEPT ![p] = "next"]

\* getOrConnectDB returns to databaseMiddleware, which answers 503 on an
\* error and otherwise binds a repository to the handle and calls next
Return(p, res) ==
  /\ pc' = [pc EXCEPT ![p] = "idle"]
  /\ gcResult' = [gcResult EXCEPT ![p] = res]
  /\ resp' = [resp EXCEPT ![p] = IF res = "handle" THEN "next"
                                 ELSE "DB_UNAVAILABLE"]

\* the middleware that answers an unknown id like an unavailable database
databaseMiddleware_WrongCode(p, path) ==
  /\ pc[p] = "idle"
  /\ LET d == ToLower(path) IN
       IF d \notin databases
         THEN /\ resp' = [resp EXCEPT ![p] = "DB_UNAVAILABLE"]
              /\ dbID' = [dbID EXCEPT ![p] = d]
              /\ pc' = pc
         ELSE /\ resp' = [resp EXCEPT ![p] = "none"]
              /\ dbID' = [dbID EXCEPT ![p] = d]
              /\ pc' = [pc EXCEPT ![p] = "lookup"]
  /\ gcResult' = [gcResult EXCEPT ![p] = "none"]
  /\ recent' = [recent EXCEPT ![p] = FALSE]
  /\ hloc' = [hloc EXCEPT ![p] = NoHandle]
  /\ lastProbe' = [lastProbe EXCEPT ![p] = "none"]
  /\ handles' = Collect(handles, dbs, hloc')
  /\ UNCHANGED <<world, dbs, dbFailures, locks, attempt, hcLocals,
                 mainLocals>>
  /\ UNCHANGED <<httpLocals, cancelled, dataLocals>>

\* databaseMiddleware: lower-case the path segment, 404 when the id is not
\* configured, otherwise enter getOrConnectDB
databaseMiddleware(p, path) ==
  /\ pc[p] = "idle"
  /\ LET d == ToLower(path) IN
       IF d \notin databases
         THEN /\ resp' = [resp EXCEPT ![p] = "DB_NOT_FOUND"]
              /\ dbID' = [dbID EXCEPT ![p] = d]
              /\ pc' = pc
         ELSE /\ resp' = [resp EXCEPT ![p] = "none"]
              /\ dbID' = [dbID EXCEPT ![p] = d]
              /\ pc' = [pc EXCEPT ![p] = "lookup"]
  /\ gcResult' = [gcResult EXCEPT ![p] = "none"]
  /\ recent' = [recent EXCEPT ![p] = FALSE]
  /\ hloc' = [hloc EXCEPT ![p] = NoHandle]
  /\ lastProbe' = [lastProbe EXCEPT ![p] = "none"]
  /\ handles' = Collect(handles, dbs, hloc')
  /\ UNCHANGED <<world, dbs, dbFailures, locks, attempt, hcLocals,
                 mainLocals>>
  /\ UNCHANGED <<httpLocals, cancelled, dataLocals>>

\* ------------------------------------------------------------ getOrConnectDB
\* step 1: look the id up in the pool under the read lock
getOrConnectDB_lookup(p) ==
  /\ pc[p] = "lookup"
  /\ CanRLockPool
  /\ poolR' = poolR \cup {p}
  /\ hloc' = [hloc EXCEPT ![p] = dbs[dbID[p]]]
  /\ pc' = [pc EXCEPT ![p] = "lookupUnlock"]
  /\ UNCHANGED <<world, dbs, dbFailures, handles, poolW, failW, failR, dbID,
                 attempt, lastProbe, reqLocals, hcLocals, mainLocals>>
  /\ UNCHANGED <<httpLocals, cancelled, dataLocals>>

\* the lookup that keeps its read lock while the handle is probed
getOrConnectDB_lookupUnlock_KeepsLock(p) ==
  /\ pc[p] = "lookupUnlock"
  /\ pc' = [pc EXCEPT ![p] = IF hloc[p] # NoHandle THEN "probe"
                             ELSE "checkFail"]
  /\ UNCHANGED <<world, dbs, dbFailures, handles, locks, dbID,
                 hloc, attempt, lastProbe, reqLocals, hcLocals, mainLocals>>
  /\ UNCHANGED <<httpLocals, cancelled, dataLocals>>

getOrConnectDB_lookupUnlock(p) ==
  /\ pc[p] = "lookupUnlock"
  /\ poolR' = poolR \ {p}
  /\ pc' = [pc EXCEPT ![p] = IF hloc[p] # NoHandle THEN "probe"
                             ELSE "checkFail"]
  /\ UNCHANGED <<world, dbs, dbFailures, handles, poolW, failW, failR, dbID,
                 hloc, attempt, lastProbe, reqLocals, hcLocals, mainLocals>>
  /\ UNCHANGED <<httpLocals, cancelled, dataLocals>>

\* the probe whose answer is ignored: the pooled handle is always replaced
getOrConnectDB_probe_AlwaysReplaces(p) ==
  /\ pc[p] = "probe"
  /\ lastProbe' = [lastProbe EXCEPT ![p] = IF PingOK(hloc[p], dbID[p])
                                            THEN "probeOk" ELSE "probeFail"]
  /\ pc' = [pc EXCEPT ![p] = "evict"]
  /\ UNCHANGED reqLocals
  /\ UNCHANGED <<world, dbs, dbFailures, handles, locks, dbID, hloc, attempt,
                 hcLocals, mainLocals>>
  /\ UNCHANGED <<httpLocals, cancelled, dataLocals>>

\* step 1: liveness probe (2 second ping) of the pooled handle; a handle
\* that answers is returned, no further work
getOrConnectDB_probe(p) ==
  /\ pc[p] = "probe"
  /\ IF PingOK(hloc[p], dbID[p])
       THEN /\ lastProbe' = [lastProbe EXCEPT ![p] = "probeOk"]
            /\ Return(p, "handle")
            /\ recent' = recent
       ELSE /\ lastProbe' = [lastProbe EXCEPT ![p] = "probeFail"]
            /\ pc' = [pc EXCEPT ![p] = "evict"]
            /\ UNCHANGED reqLocals
  /\ UNCHANGED <<world, dbs, dbFailures, handles, locks, dbID, hloc, attempt,
                 hcLocals, mainLocals>>
  /\ UNCHANGED <<httpLocals, cancelled, dataLocals>>

\* step 1, probe failed: remove the handle from the pool under the write
\* lock
getOrConnectDB_evict(p) ==
  /\ pc[p] = "evict"
  /\ CanLockPool
  /\ poolW' = p
  /\ dbs' = [dbs EXCEPT ![dbID[p]] = NoHandle]
  /\ pc' = [pc EXCEPT ![p] = "evictUnlock"]
  /\ UNCHANGED <<world, dbFailures, handles, poolR, failW, failR, dbID, hloc,
                 attempt, lastProbe, reqLocals, hcLocals, mainLocals>>
  /\ UNCHANGED <<httpLocals, cancelled, dataLocals>>

\* ... and close it; fall through to step 2 as if absent
getOrConnectDB_evictUnlock(p) ==
  /\ pc[p] = "evictUnlock"
  /\ hloc' = [hloc EXCEPT ![p] = NoHandle]
  /\ handles' = Collect(Close(handles, hloc[p]), dbs, hloc')
  /\ poolW' = NoProc
  /\ pc' = [pc EXCEPT ![p] = "checkFail"]
  /\ UNCHANGED <<world, dbs, dbFailures, poolR, failW, failR, dbID, attempt,
                 lastProbe, reqLocals, hcLocals, mainLocals>>
  /\ UNCHANGED <<httpLocals, cancelled, dataLocals>>

\* the window test with the comparison reversed
RecentlyFailed_Reversed(d) ==
  dbFailures[d] # NoFail /\ now - dbFailures[d] > BackoffWindow

\* a failure recorded less than BackoffWindow seconds ago
RecentlyFailed(d) ==
  dbFailures[d] # NoFail /\ now - dbFailures[d] < BackoffWindow

\* step 2: read the failure record under its read lock
getOrConnectDB_checkFail(p) ==
  /\ pc[p] = "checkFail"
  /\ CanRLockFail
  /\ failR' = failR \cup {p}
  /\ recent' = [recent EXCEPT ![p] = RecentlyFailed(dbID[p])]
  /\ pc' = [pc EXCEPT ![p] = "checkFailUnlock"]
  /\ UNCHANGED <<world, dbs, dbFailures, handles, poolW, poolR, failW, dbID,
                 hloc, attempt, lastProbe, gcResult, resp, hcLocals,
                 mainLocals>>
  /\ UNCHANGED <<httpLocals, cancelled, dataLocals>>

\* step 2: fail fast inside the window; step 3: resolve the configuration
getOrConnectDB_checkFailUnlock(p) ==
  /\ pc[p] = "checkFailUnlock"
  /\ failR' = failR \ {p}
  /\ IF recent[p]
       THEN Return(p, "RecentlyFailed") /\ attempt' = attempt
       ELSE IF dbID[p] \notin databases
         THEN Return(p, "ConfigNotFound") /\ attempt' = attempt
         ELSE /\ pc' = [pc EXCEPT ![p] = "connect"]
              /\ attempt' = [attempt EXCEPT ![p] = 1]
              /\ UNCHANGED <<gcResult, resp>>
  /\ UNCHANGED <<world, dbs, dbFailures, handles, poolW, poolR, failW, dbID,
                 hloc, lastProbe, recent, hcLocals, mainLocals>>
  /\ UNCHANGED <<httpLocals, cancelled, dataLocals>>

\* step 4: attempt to open a new connection
getOrConnectDB_connect(p) ==
  /\ pc[p] = "connect"
  /\ openDatabase(p, "insert", "recordFail")
  /\ UNCHANGED <<world, dbs, dbFailures, locks, dbID, reqLocals, hcLocals,
                 mainLocals>>
  /\ UNCHANGED <<httpLocals, cancelled, dataLocals>>

\* step 4, success: insert into the pool under the write lock
getOrConnectDB_insert(p) ==
  /\ pc[p] = "insert"
  /\ CanLockPool
  /\ poolW' = p
  /\ dbs' = [dbs EXCEPT ![dbID[p]] = hloc[p]]
  /\ pc' = [pc EXCEPT ![p] = "insertUnlock"]
  /\ UNCHANGED <<world, dbFailures, handles, poolR, failW, failR, dbID, hloc,
                 attempt, lastProbe, reqLocals, hcLocals, mainLocals>>
  /\ UNCHANGED <<httpLocals, cancelled, dataLocals>>

\* the insert that keeps the pool lock while it clears the failure record
getOrConnectDB_insertUnlock_KeepsLock(p) ==
  /\ pc[p] = "insertUnlock"
  /\ pc' = [pc EXCEPT ![p] = "clearFail"]
  /\ UNCHANGED <<world, dbs, dbFailures, handles, locks, dbID,
                 hloc, attempt, lastProbe, reqLocals, hcLocals, mainLocals>>
  /\ UNCHANGED <<httpLocals, cancelled, dataLocals>>

getOrConnectDB_insertUnlock(p) ==
  /\ pc[p] = "insertUnlock"
  /\ poolW' = NoProc
  /\ pc' = [pc EXCEPT ![p] = "clearFail"]
  /\ UNCHANGED <<world, dbs, dbFailures, handles, poolR, failW, failR, dbID,
                 hloc, attempt, lastProbe, reqLocals, hcLocals, mainLocals>>
  /\ UNCHANGED <<httpLocals, cancelled, dataLocals>>

\* step 4, success: clear any failure record of the id
getOrConnectDB_clearFail(p) ==
  /\ pc[p] = "clearFail"
  /\ CanLockFail
  /\ failW' = p
  /\ dbFailures' = [dbFailures EXCEPT ![dbID[p]] = NoFail]
  /\ pc' = [pc EXCEPT ![p] = "clearFailUnlock"]
  /\ UNCHANGED <<world, dbs, handles, poolW, poolR, failR, dbID, hloc,
                 attempt, lastProbe, reqLocals, hcLocals, mainLocals>>
  /\ UNCHANGED <<httpLocals, cancelled, dataLocals>>

\* step 4, success: return the handle
getOrConnectDB_clearFailUnlock(p) ==
  /\ pc[p] = "clearFailUnlock"
  /\ failW' = NoProc
  /\ Return(p, "handle")
  /\ UNCHANGED <<world, dbs, dbFailures, handles, poolW, poolR, failR, dbID,
                 hloc, attempt, lastProbe, recent, hcLocals, mainLocals>>
  /\ UNCHANGED <<httpLocals, cancelled, dataLocals>>

\* the failure path that takes the lock but writes no timestamp
getOrConnectDB_recordFail_NoWrite(p) ==
  /\ pc[p] = "recordFail"
  /\ CanLockFail
  /\ failW' = p
  /\ pc' = [pc EXCEPT ![p] = "recordFailUnlock"]
  /\ UNCHANGED <<world, dbs, dbFailures, handles, poolW, poolR, failR, dbID,
                 hloc, attempt, lastProbe, reqLocals, hcLocals, mainLocals>>
  /\ UNCHANGED <<httpLocals, cancelled, dataLocals>>

\* step 4, failure: record the time of the failure
getOrConnectDB_recordFail(p) ==
  /\ pc[p] = "recordFail"
  /\ CanLockFail
  /\ failW' = p
  /\ dbFailures' = [dbFailures EXCEPT ![dbID[p]] = now]
  /\ pc' = [pc EXCEPT ![p] = "recordFailUnlock"]
  /\ UNCHANGED <<world, dbs, handles, poolW, poolR, failR, dbID, hloc,
                 attempt, lastProbe, reqLocals, hcLocals, mainLocals>>
  /\ UNCHANGED <<httpLocals, cancelled, dataLocals>>

\* step 4, failure: return the error as ConnectionFailed
getOrConnectDB_recordFailUnlock(p) ==
  /\ pc[p] = "recordFailUnlock"
  /\ failW' = NoProc
  /\ Return(p, "ConnectionFailed")
  /\ UNCHANGED <<world, dbs, dbFailures, handles, poolW, poolR, failR, dbID,
                 hloc, attempt, lastProbe, recent, hcLocals, mainLocals>>
  /\ UNCHANGED <<httpLocals, cancelled, dataLocals>>

\* ------------------------------------------------------------ health checker
\* case <-ticker.C: app.checkAndReconnectDatabases(); first the snapshot of
\* app.dbs under the read lock
hcSnapshot ==
  /\ pc[HC] = "hcWait"
  /\ CanRLockPool
  /\ poolR' = poolR \cup {HC}
  /\ pc' = [pc EXCEPT ![HC] = "hcSnapUnlock"]
  /\ UNCHANGED <<world, dbs, dbFailures, handles, poolW, failW, failR, dbID,
                 hloc, attempt, lastProbe, reqLocals, hcLocals, mainLocals>>
  /\ UNCHANGED <<httpLocals, cancelled, dataLocals>>

hcSnapUnlock ==
  /\ pc[HC] = "hcSnapUnlock"
  /\ poolR' = poolR \ {HC}
  /\ pc' = [pc EXCEPT ![HC] = "hcPing"]
  /\ UNCHANGED <<world, dbs, dbFailures, handles, poolW, failW, failR, dbID,
                 hloc, attempt, lastProbe, reqLocals, hcLocals, mainLocals>>
  /\ UNCHANGED <<httpLocals, cancelled, dataLocals>>

\* ping every snapshotted handle (3 second deadline each); a failed ping is
\* only logged, so the loop changes nothing; then start the loop over
\* app.cfg.databases
hcPing ==
  /\ pc[HC] = "hcPing"
  /\ hcTodo' = databases
  /\ pc' = [pc EXCEPT ![HC] = "hcNext"]
  /\ UNCHANGED <<world, dbs, dbFailures, handles, locks, dbID, hloc, attempt,
                 lastProbe, reqLocals, mainLocals>>
  /\ UNCHANGED <<httpLocals, cancelled, dataLocals>>

\* next configured id: _, exists := app.dbs[dbID] under the read lock
hcNext ==
  /\ pc[HC] = "hcNext"
  /\ hcTodo # {}
  /\ CanRLockPool
  /\ \E d \in hcTodo :
       /\ hcTodo' = hcTodo \ {d}
       /\ dbID' = [dbID EXCEPT ![HC] = d]
       /\ hloc' = [hloc EXCEPT ![HC] = dbs[d]]
  /\ poolR' = poolR \cup {HC}
  /\ pc' = [pc EXCEPT ![HC] = "hcNextUnlock"]
  /\ UNCHANGED <<world, dbs, dbFailures, handles, poolW, failW, failR,
                 attempt, lastProbe, reqLocals, mainLocals>>
  /\ UNCHANGED <<httpLocals, cancelled, dataLocals>>

hcNextUnlock ==
  /\ pc[HC] = "hcNextUnlock"
  /\ poolR' = poolR \ {HC}
  /\ IF hloc[HC] = NoHandle
       THEN /\ pc' = [pc EXCEPT ![HC] = "hcConnect"]
            /\ attempt' = [attempt EXCEPT ![HC] = 1]
       ELSE /\ pc' = [pc EXCEPT ![HC] = "hcNext"]
            /\ attempt' = attempt
  /\ hloc' = [hloc EXCEPT ![HC] = NoHandle]
  /\ UNCHANGED <<world, dbs, dbFailures, handles, poolW, failW, failR, dbID,
                 lastProbe, reqLocals, hcLocals, mainLocals>>
  /\ UNCHANGED <<httpLocals, cancelled, dataLocals>>

\* db, err := openDatabase("oracle", dsn, dbID)
hcConnect ==
  /\ pc[HC] = "hcConnect"
  /\ openDatabase(HC, "hcInsert", "hcNext")
  /\ UNCHANGED <<world, dbs, dbFailures, locks, dbID, reqLocals, hcLocals,
                 mainLocals>>
  /\ UNCHANGED <<httpLocals, cancelled, dataLocals>>

\* the checker that takes the write lock but does not store the handle
hcInsert_NoStore ==
  /\ pc[HC] = "hcInsert"
  /\ CanLockPool
  /\ poolW' = HC
  /\ pc' = [pc EXCEPT ![HC] = "hcInsertUnlock"]
  /\ UNCHANGED <<world, dbs, dbFailures, handles, poolR, failW, failR, dbID,
                 hloc, attempt, lastProbe, reqLocals, hcLocals, mainLocals>>
  /\ UNCHANGED <<httpLocals, cancelled, dataLocals>>

\* if err == nil: app.dbs[dbID] = db under the write lock
hcInsert ==
  /\ pc[HC] = "hcInsert"
  /\ CanLockPool
  /\ poolW' = HC
  /\ dbs' = [dbs EXCEPT ![dbID[HC]] = hloc[HC]]
  /\ pc' = [pc EXCEPT ![HC] = "hcInsertUnlock"]
  /\ UNCHANGED <<world, dbFailures, handles, poolR, failW, failR, dbID, hloc,
                 attempt, lastProbe, reqLocals, hcLocals, mainLocals>>
  /\ UNCHANGED <<httpLocals, cancelled, dataLocals>>

hcInsertUnlock ==
  /\ pc[HC] = "hcInsertUnlock"
  /\ poolW' = NoProc
  /\ hloc' = [hloc EXCEPT ![HC] = NoHandle]
  /\ pc' = [pc EXCEPT ![HC] = "hcNext"]
  /\ UNCHANGED <<world, dbs, dbFailures, handles, poolR, failW, failR, dbID,
                 attempt, lastProbe, reqLocals, hcLocals, mainLocals>>
  /\ UNCHANGED <<httpLocals, cancelled, dataLocals>>

\* the sweep is over: back to the select on the ticker
hcSweepDone ==
  /\ pc[HC] = "hcNext"
  /\ hcTodo = {}
  /\ pc' = [pc EXCEPT ![HC] = "hcWait"]
  /\ dbID' = [dbID EXCEPT ![HC] = NoId]
  /\ lastProbe' = [lastProbe EXCEPT ![HC] = "none"]
  /\ UNCHANGED <<world, dbs, dbFailures, handles, locks, hloc, attempt,
                 reqLocals, hcLocals, mainLocals>>
  /\ UNCHANGED <<httpLocals, cancelled, dataLocals>>

\* ------------------------------------------------------------ shutdown
\* ctx.Done() was chosen by the select: return, the deferred ticker.Stop()
\* runs
hcStop ==
  /\ pc[HC] = "hcWait"
  /\ cancelled
  /\ pc' = [pc EXCEPT ![HC] = "hcDone"]
  /\ UNCHANGED <<world, dbs, dbFailures, handles, locks, dbID, hloc, attempt,
                 lastProbe, reqLocals, hcLocals, mainLocals, httpLocals,
                 cancelled, dataLocals>>

\* app.serve() returned nil: main returns and its deferred cancel() runs
MainReturn ==
  /\ pc[MAIN] = "serving"
  /\ cancelled' = TRUE
  /\ pc' = [pc EXCEPT ![MAIN] = "returned"]
  /\ UNCHANGED <<world, dbs, dbFailures, handles, locks, dbID, hloc, attempt,
                 lastProbe, reqLocals, hcLocals, mainLocals, httpLocals,
                 dataLocals>>

\* the process ends: after main has returned, or by os.Exit(1) when
\* app.serve() returned an error (no deferred call runs); every goroutine
\* stops where it is and nothing closes the pooled handles
ProcessExit ==
  /\ pc[MAIN] \in {"serving", "returned"}
  /\ pc' = [p \in Procs |-> IF p = MAIN THEN "terminated"
                            ELSE IF pc[p] = "hcDone" THEN "hcDone"
                            ELSE "killed"]
  /\ UNCHANGED <<world, dbs, dbFailures, handles, locks, dbID, hloc, attempt,
                 lastProbe, reqLocals, hcLocals, mainLocals, httpLocals,
                 cancelled, dataLocals>>

\* ------------------------------------------------------------ http handlers
\* a request arrives at the router: its method and its query string; no
\* database id is bound yet and nothing has been answered
serveHTTP(p, m, pg, ps) ==
  /\ pc[p] = "idle"
  /\ method' = [method EXCEPT ![p] = m]
  /\ query' = [query EXCEPT ![p] = [page |-> pg, page_size |-> ps]]
  /\ reply' = [reply EXCEPT ![p] = NoReply]
  /\ repoArgs' = [repoArgs EXCEPT ![p] = <<>>]
  /\ resp' = [resp EXCEPT ![p] = "none"]
  /\ dbID' = [dbID EXCEPT ![p] = NoId]
  /\ reqBody' = [reqBody EXCEPT ![p] = NoBody]
  /\ dbCall' = [dbCall EXCEPT ![p] = "none"]
  /\ UNCHANGED <<world, dbs, dbFailures, handles, locks, pc, hloc,
                 attempt, lastProbe, recent, gcResult, hcLocals, mainLocals,
                 cancelled, table, nextSeq, errText,
                 cfgLocals>>

\* the liveness handler that looks at the pool: 503 when it is empty
healthCheckHandler_NeedsPool(p) ==
  /\ pc[p] = "idle"
  /\ resp[p] = "none"
  /\ method[p] = "GET"
  /\ reply' = [reply EXCEPT ![p] =
                 IF \E d \in databases : dbs[d] # NoHandle
                   THEN [NoReply EXCEPT !.by = "health", !.code = 200,
                                        !.status = "ok"]
                   ELSE [NoReply EXCEPT !.by = "health", !.code = 503,
                                        !.status = "unavailable"]]
  /\ UNCHANGED <<world, dbs, dbFailures, handles, locks, pc, dbID, hloc,
                 attempt, lastProbe, reqLocals, hcLocals, mainLocals,
                 method, query, repoArgs, cancelled, dataLocals>>

\* r.Get("/health", ...): 200 and status "ok", nothing else
healthCheckHandler(p) ==
  /\ pc[p] = "idle"
  /\ resp[p] = "none"
  /\ method[p] = "GET"
  /\ reply' = [reply EXCEPT ![p] = [NoReply EXCEPT !.by = "health",
                                                   !.code = 200,
                                                   !.status = "ok"]]
  /\ UNCHANGED <<world, dbs, dbFailures, handles, locks, pc, dbID, hloc,
                 attempt, lastProbe, reqLocals, hcLocals, mainLocals,
                 method, query, repoArgs, cancelled, dataLocals>>

\* for dbID := range app.dbs, made without app.dbMutex, while another
\* goroutine is inside a write section of the map: the iteration may go
\* through, or the runtime stops the process with "fatal error: concurrent
\* map iteration and map write"
RangeOutcomes(p) ==
  IF poolW \notin {NoProc, p} THEN {"read", "fatal"} ELSE {"read"}

\* the process after a fatal error of the runtime: every goroutine is gone
Crashed == [q \in Procs |-> "crashed"]

\* r.Get("/health/readiness", ...): ping every entry of app.dbs (2 second
\* deadline each, the map is read without the lock), count the ones that
\* answer, derive the status from the count and len(app.dbs); an entry
\* that does not answer is listed with err.Error()
readinessCheckHandler(p) ==
  /\ pc[p] = "idle"
  /\ resp[p] = "none"
  /\ method[p] = "GET"
  /\ \E out \in RangeOutcomes(p) :
       LET pooled == {d \in databases : dbs[d] # NoHandle}
           healthyCount == Cardinality({d \in pooled : PingOK(dbs[d], d)})
           status == IF healthyCount = 0 THEN "not_ready"
                     ELSE IF healthyCount < Cardinality(pooled)
                       THEN "degraded"
                     ELSE "ready"
       IN /\ pc' = IF out = "fatal" THEN Crashed ELSE pc
          /\ reply' = IF out = "fatal" THEN reply
                      ELSE [reply EXCEPT ![p] =
                              [NoReply EXCEPT
                                 !.by = "readiness",
                                 !.code = IF status = "not_ready" THEN 503
                                          ELSE 200,
                                 !.status = status,
                                 !.total = Cardinality(pooled),
                                 !.healthy = healthyCount,
                                 !.text = {PingError(dbs[d]) :
                                             d \in {e \in pooled :
                                               ~PingOK(dbs[e], e)}}]]
  /\ UNCHANGED <<world, dbs, dbFailures, handles, locks, dbID, hloc,
                 attempt, lastProbe, reqLocals, hcLocals, mainLocals,
                 method, query, repoArgs, cancelled, dataLocals>>

\* r.Get("/databases", ...): 200 with the ids of app.dbs and their count;
\* the map is read without the lock
listDatabasesHandler(p) ==
  /\ pc[p] = "idle"
  /\ resp[p] = "none"
  /\ method[p] = "GET"
  /\ \E out \in RangeOutcomes(p) :
       /\ pc' = IF out = "fatal" THEN Crashed ELSE pc
       /\ reply' = IF out = "fatal" THEN reply
                   ELSE [reply EXCEPT ![p] =
                           [NoReply EXCEPT
                              !.by = "databases",
                              !.code = 200,
                              !.total = Cardinality({d \in databases :
                                                       dbs[d] # NoHandle})]]
  /\ UNCHANGED <<world, dbs, dbFailures, handles, locks, dbID, hloc,
                 attempt, lastProbe, reqLocals, hcLocals, mainLocals,
                 method, query, repoArgs, cancelled, dataLocals>>

\* ------------------------------------------------------------ repository
\* x + y in Go's int on a build with 32 bit ints: the sum wraps modulo 2^32
\* (a build with 64 bit ints wraps the same way at 2^64)
AddInt(x, y) ==
  IF x > 0 /\ y > 0 /\ x > IntMax - y
    THEN (x - IntMax - 1) + (y - IntMax - 1)
  ELSE IF x < 0 /\ y < 0 /\ x < (0 - IntMax - 1) - y
    THEN (x + IntMax + 1) + (y + IntMax + 1)
  ELSE x + y

RECURSIVE MulInt(_, _)
\* x * n in Go's int for n >= 0, by doubling, every sum wrapping
MulInt(x, n) ==
  IF n = 0 THEN 0
  ELSE LET h == MulInt(x, n \div 2)
           dbl == AddInt(h, h)
       IN IF n % 2 = 1 THEN AddInt(dbl, x) ELSE dbl

DigitChar(n) ==
  CASE n = 0 -> "0" [] n = 1 -> "1" [] n = 2 -> "2" [] n = 3 -> "3"
    [] n = 4 -> "4" [] n = 5 -> "5" [] n = 6 -> "6" [] n = 7 -> "7"
    [] n = 8 -> "8" [] n = 9 -> "9"

TwoDigits(n) == <<DigitChar(n \div 10), DigitChar(n % 10)>>

FourDigits(n) == TwoDigits(n \div 100) \o TwoDigits(n % 100)

\* days of month m in year y
DaysIn(y, m) ==
  IF m \in {4, 6, 9, 11} THEN 30
  ELSE IF m # 2 THEN 31
  ELSE IF y % 4 = 0 /\ (y % 100 # 0 \/ y % 400 = 0) THEN 29
  ELSE 28

\* time.Parse(time.DateOnly, s): four digits, "-", two digits, "-", two
\* digits, nothing else; the month and the day of the month in range
ParseDateOnly(s) ==
  IF \/ Len(s) # 10
     \/ s[5] # "-"
     \/ s[8] # "-"
     \/ \E i \in {1, 2, 3, 4, 6, 7, 9, 10} : s[i] \notin Digits
    THEN [err |-> TRUE, y |-> 0, m |-> 0, d |-> 0]
    ELSE LET y == ParseDigits(SubSeq(s, 1, 4), 0)
             m == ParseDigits(SubSeq(s, 6, 7), 0)
             d == ParseDigits(SubSeq(s, 9, 10), 0)
         IN IF m \in 1..12 /\ d >= 1 /\ d <= DaysIn(y, m)
              THEN [err |-> FALSE, y |-> y, m |-> m, d |-> d]
              ELSE [err |-> TRUE, y |-> 0, m |-> 0, d |-> 0]

\* TO_DATE(:6, 'YYYY-MM-DD') on a text time.Parse accepted: the DATE value
ToDate(s) ==
  LET t == ParseDateOnly(s) IN [y |-> t.y, m |-> t.m, d |-> t.d]

\* TO_CHAR(transaction_date, 'YYYY-MM-DD"T"HH24:MI:SS') of a DATE that was
\* stored without a time of day
ToChar(dt) ==
  FourDigits(dt.y) \o <<"-">> \o TwoDigits(dt.m) \o <<"-">>
    \o TwoDigits(dt.d) \o <<"T", "0", "0", ":", "0", "0", ":", "0", "0">>

\* the ordering that breaks a tie of dates by the lower key
OrderedBefore_SeqAscending(r, o) ==
  LET rd == r.transaction_date.y * 10000 + r.transaction_date.m * 100
              + r.transaction_date.d
      od == o.transaction_date.y * 10000 + o.transaction_date.m * 100
              + o.transaction_date.d
  IN rd > od \/ (rd = od /\ r.transactions_seq < o.transactions_seq)

\* ORDER BY transaction_date DESC, transactions_seq DESC: row r sorts
\* before row o
OrderedBefore(r, o) ==
  LET rd == r.transaction_date.y * 10000 + r.transaction_date.m * 100
              + r.transaction_date.d
      od == o.transaction_date.y * 10000 + o.transaction_date.m * 100
              + o.transaction_date.d
  IN rd > od \/ (rd = od /\ r.transactions_seq > o.transactions_seq)

RECURSIVE OrderBy(_)
\* the rows of the set t in the order of the inner SELECT
OrderBy(t) ==
  IF t = {} THEN <<>>
  ELSE LET first == CHOOSE r \in t : \A o \in t \ {r} : OrderedBefore(r, o)
       IN <<first>> \o OrderBy(t \ {first})

\* rows.Scan: the columns of a row as the query selects them
Scan(row) == [row EXCEPT !.transaction_date = ToChar(@)]

\* Repository.ListTransactions on the rows t: ROWNUM <= endRow in the
\* ordered subquery, rnum > startRow outside, both bounds computed in int
Repository_ListTransactions(t, page, pageSize) ==
  LET startRow == MulInt(page - 1, pageSize)
      endRow == MulInt(page, pageSize)
      ordered == OrderBy(t)
      lo == IF startRow < 0 THEN 1 ELSE startRow + 1
      hi == IF endRow < Len(ordered) THEN endRow ELSE Len(ordered)
  IN IF startRow >= Len(ordered) \/ lo > hi THEN <<>>
     ELSE [i \in 1..(hi - lo + 1) |-> Scan(ordered[lo + i - 1])]

\* Repository.CreateTransaction on the rows t: one INSERT, the key taken
\* from TRANSACTIONS_SEQ.NEXTVAL, the date text converted by TO_DATE.  (The
\* columns price_per_unit, total_cost, exchange and notes are bound to the
\* statement like coin_symbol and are left out.)
Repository_CreateTransaction(t, seq, tx) ==
  t \cup {[transactions_seq |-> seq,
           coin_symbol |-> tx.coin_symbol,
           transaction_type |-> tx.transaction_type,
           quantity |-> tx.quantity,
           transaction_date |-> ToDate(tx.transaction_date)]}

\* how a QueryContext/ExecContext on the injected handle can end: the
\* request's deadline may expire during the call; otherwise the statement
\* runs when the handle is open and the database is up
CallOutcomes(p) ==
  {"deadlineExceeded"}
    \cup (IF PingOK(hloc[p], dbID[p]) THEN {"ok"} ELSE {"driverError"})

\* tables of database "a" that earlier requests left behind: the keys
\* 1..n in the order TRANSACTIONS_SEQ gave them out, every row dated one of
\* two days, so that rows share a date
StoredRow(k, date) ==
  [transactions_seq |-> k, coin_symbol |-> "ETH", transaction_type |-> "BUY",
   quantity |-> 1, transaction_date |-> ToDate(date)]

StoredTables ==
  UNION {{{StoredRow(k, f[k]) : k \in 1..n} : f \in [1..n -> {Jan15, Jan20}]}
           : n \in 0..MaxRows}

\* the state after construction when database "a" already holds rows
InitStored ==
  /\ InitLoaded
  /\ \E t \in StoredTables :
       /\ table = [d \in databases |-> IF d = "a" THEN t ELSE {}]
       /\ nextSeq = [d \in databases |->
                       IF d = "a" THEN Cardinality(t) + 1 ELSE 1]
  /\ errText = "ORA-12541"

\* the handler without the upper clamp of page_size
ListTransactions_NoClamp(p) ==
  /\ pc[p] = "idle"
  /\ resp[p] = "next"
  /\ method[p] = "GET"
  /\ LET pa == Atoi(query[p].page)
         page == IF pa.err \/ pa.n < 1 THEN 1 ELSE pa.n
         sa == Atoi(query[p].page_size)
         pageSize == IF sa.err \/ sa.n < 1 THEN 20 ELSE sa.n
     IN /\ repoArgs' = [repoArgs EXCEPT ![p] = <<page, pageSize>>]
        /\ \E out \in CallOutcomes(p) :
             /\ dbCall' = [dbCall EXCEPT ![p] = out]
             /\ reply' = [reply EXCEPT ![p] =
                   IF out = "ok"
                     THEN [NoReply EXCEPT
                             !.by = "list",
                             !.code = 200,
                             !.status = "transactions",
                             !.page = page,
                             !.pageSize = pageSize,
                             !.rows = Repository_ListTransactions(
                                        table[dbID[p]], page, pageSize)]
                     ELSE [NoReply EXCEPT
                             !.by = "list",
                             !.code = 500,
                             !.status = "error",
                             !.text = {"Failed to list transactions"}]]
  /\ resp' = [resp EXCEPT ![p] = "handled"]
  /\ UNCHANGED <<world, dbs, dbFailures, handles, locks, pc, dbID, hloc,
                 attempt, lastProbe, recent, gcResult, hcLocals, mainLocals,
                 method, query, cancelled, table, nextSeq, reqBody, errText,
                 cfgLocals>>

\* r.Get("/transactions", ...) behind databaseMiddleware: parse and clamp
\* page and page_size, call the repository on the injected handle, answer
\* 200 with the rows and the pair; 500 with a fixed message when the query
\* fails.  (middleware.Timeout writes 504 after the handler returned with
\* an expired deadline: the status line is already sent, nothing changes.)
ListTransactions(p) ==
  /\ pc[p] = "idle"
  /\ resp[p] = "next"
  /\ method[p] = "GET"
  /\ LET pa == Atoi(query[p].page)
         page == IF pa.err \/ pa.n < 1 THEN 1 ELSE pa.n
         sa == Atoi(query[p].page_size)
         size == IF sa.err \/ sa.n < 1 THEN 20 ELSE sa.n
         pageSize == IF size > 100 THEN 100 ELSE size
     IN /\ repoArgs' = [repoArgs EXCEPT ![p] = <<page, pageSize>>]
        /\ \E out \in CallOutcomes(p) :
             /\ dbCall' = [dbCall EXCEPT ![p] = out]
             /\ reply' = [reply EXCEPT ![p] =
                   IF out = "ok"
                     THEN [NoReply EXCEPT
                             !.by = "list",
                             !.code = 200,
                             !.status = "transactions",
                             !.page = page,
                             !.pageSize = pageSize,
                             !.rows = Repository_ListTransactions(
                                        table[dbID[p]], page, pageSize)]
                     ELSE [NoReply EXCEPT
                             !.by = "list",
                             !.code = 500,
                             !.status = "error",
                             !.text = {"Failed to list transactions"}]]
  /\ resp' = [resp EXCEPT ![p] = "handled"]
  /\ UNCHANGED <<world, dbs, dbFailures, handles, locks, pc, dbID, hloc,
                 attempt, lastProbe, recent, gcResult, hcLocals, mainLocals,
                 method, query, cancelled, table, nextSeq, reqBody, errText,
                 cfgLocals>>

\* a POST arrives at the router with body b (what json.Decode makes of it)
servePost(p, b) ==
  /\ pc[p] = "idle"
  /\ method' = [method EXCEPT ![p] = "POST"]
  /\ query' = [query EXCEPT ![p] = NoQuery]
  /\ reply' = [reply EXCEPT ![p] = NoReply]
  /\ repoArgs' = [repoArgs EXCEPT ![p] = <<>>]
  /\ resp' = [resp EXCEPT ![p] = "none"]
  /\ dbID' = [dbID EXCEPT ![p] = NoId]
  /\ reqBody' = [reqBody EXCEPT ![p] = b]
  /\ dbCall' = [dbCall EXCEPT ![p] = "none"]
  /\ UNCHANGED <<world, dbs, dbFailures, handles, locks, pc, hloc,
                 attempt, lastProbe, recent, gcResult, hcLocals, mainLocals,
                 cancelled, table, nextSeq, errText,
                 cfgLocals>>

\* the handler that calls the repository before it looks at the date
CreateTransaction_InsertsFirst(p) ==
  /\ pc[p] = "idle"
  /\ resp[p] = "next"
  /\ method[p] = "POST"
  /\ LET req == reqBody[p]
         d == dbID[p]
     IN IF ~req.json
          THEN /\ reply' = [reply EXCEPT ![p] =
                    [NoReply EXCEPT !.by = "create", !.code = 400,
                                    !.status = "error",
                                    !.text = {"Invalid request payload"}]]
               /\ UNCHANGED <<table, nextSeq, dbCall>>
        ELSE \E out \in CallOutcomes(p) :
               /\ dbCall' = [dbCall EXCEPT ![p] = out]
               /\ IF out = "ok"
                    THEN /\ Cardinality(table[d]) < MaxRows
                         /\ table' = [table EXCEPT ![d] =
                              Repository_CreateTransaction(@, nextSeq[d], req)]
                         /\ nextSeq' = [nextSeq EXCEPT ![d] = @ + 1]
                         /\ reply' = [reply EXCEPT ![p] =
                              IF ParseDateOnly(req.transaction_date).err
                                THEN [NoReply EXCEPT
                                        !.by = "create", !.code = 400,
                                        !.status = "error",
                                        !.text = {"Invalid transaction_date format (expected YYYY-MM-DD)"}]
                                ELSE [NoReply EXCEPT
                                        !.by = "create", !.code = 201,
                                        !.status = "created"]]
                    ELSE /\ UNCHANGED <<table, nextSeq>>
                         /\ reply' = [reply EXCEPT ![p] =
                              [NoReply EXCEPT
                                 !.by = "create", !.code = 500,
                                 !.status = "error",
                                 !.text = {"Failed to create transaction"}]]
  /\ resp' = [resp EXCEPT ![p] = "handled"]
  /\ UNCHANGED <<world, dbs, dbFailures, handles, locks, pc, dbID, hloc,
                 attempt, lastProbe, recent, gcResult, hcLocals, mainLocals,
                 method, query, repoArgs, cancelled, reqBody, errText,
                 cfgLocals>>

\* the handler that answers 201 whatever the repository returned
CreateTransaction_IgnoresError(p) ==
  /\ pc[p] = "idle"
  /\ resp[p] = "next"
  /\ method[p] = "POST"
  /\ LET req == reqBody[p]
         d == dbID[p]
     IN IF ~req.json
          THEN /\ reply' = [reply EXCEPT ![p] =
                    [NoReply EXCEPT !.by = "create", !.code = 400,
                                    !.status = "error",
                                    !.text = {"Invalid request payload"}]]
               /\ UNCHANGED <<table, nextSeq, dbCall>>
        ELSE IF ParseDateOnly(req.transaction_date).err
          THEN /\ reply' = [reply EXCEPT ![p] =
                    [NoReply EXCEPT
                       !.by = "create", !.code = 400,
                       !.status = "error",
                       !.text = {"Invalid transaction_date format (expected YYYY-MM-DD)"}]]
               /\ UNCHANGED <<table, nextSeq, dbCall>>
        ELSE \E out \in CallOutcomes(p) :
               /\ dbCall' = [dbCall EXCEPT ![p] = out]
               /\ reply' = [reply EXCEPT ![p] =
                    [NoReply EXCEPT !.by = "create", !.code = 201,
                                    !.status = "created"]]
               /\ IF out = "ok"
                    THEN /\ Cardinality(table[d]) < MaxRows
                         /\ table' = [table EXCEPT ![d] =
                              Repository_CreateTransaction(@, nextSeq[d], req)]
                         /\ nextSeq' = [nextSeq EXCEPT ![d] = @ + 1]
                    ELSE UNCHANGED <<table, nextSeq>>
  /\ resp' = [resp EXCEPT ![p] = "handled"]
  /\ UNCHANGED <<world, dbs, dbFailures, handles, locks, pc, dbID, hloc,
                 attempt, lastProbe, recent, gcResult, hcLocals, mainLocals,
                 method, query, repoArgs, cancelled, reqBody, errText,
                 cfgLocals>>

\* r.Post("/transactions", ...) behind databaseMiddleware: decode the body
\* (400 when that fails), check transaction_date with time.Parse (400 when
\* that fails), call the repository on the injected handle, answer 201, or
\* 500 with a fixed message when the call returns an error.  A call that
\* returns an error leaves the table as it was.
CreateTransaction(p) ==
  /\ pc[p] = "idle"
  /\ resp[p] = "next"
  /\ method[p] = "POST"
  /\ LET req == reqBody[p]
         d == dbID[p]
     IN IF ~req.json
          THEN /\ reply' = [reply EXCEPT ![p] =
                    [NoReply EXCEPT !.by = "create", !.code = 400,
                                    !.status = "error",
                                    !.text = {"Invalid request payload"}]]
               /\ UNCHANGED <<table, nextSeq, dbCall>>
        ELSE IF ParseDateOnly(req.transaction_date).err
          THEN /\ reply' = [reply EXCEPT ![p] =
                    [NoReply EXCEPT
                       !.by = "create", !.code = 400,
                       !.status = "error",
                       !.text = {"Invalid transaction_date format (expected YYYY-MM-DD)"}]]
               /\ UNCHANGED <<table, nextSeq, dbCall>>
        ELSE \E out \in CallOutcomes(p) :
               /\ dbCall' = [dbCall EXCEPT ![p] = out]
               /\ IF out = "ok"
                    THEN /\ Cardinality(table[d]) < MaxRows
                         /\ table' = [table EXCEPT ![d] =
                              Repository_CreateTransaction(@, nextSeq[d], req)]
                         /\ nextSeq' = [nextSeq EXCEPT ![d] = @ + 1]
                         /\ reply' = [reply EXCEPT ![p] =
                              [NoReply EXCEPT !.by = "create", !.code = 201,
                                              !.status = "created"]]
                    ELSE /\ UNCHANGED <<table, nextSeq>>
                         /\ reply' = [reply EXCEPT ![p] =
                              [NoReply EXCEPT
                                 !.by = "create", !.code = 500,
                                 !.status = "error",
                                 !.text = {"Failed to create transaction"}]]
  /\ resp' = [resp EXCEPT ![p] = "handled"]
  /\ UNCHANGED <<world, dbs, dbFailures, handles, locks, pc, dbID, hloc,
                 attempt, lastProbe, recent, gcResult, hcLocals, mainLocals,
                 method, query, repoArgs, cancelled, reqBody, errText,
                 cfgLocals>>

\* ------------------------------------------------------------ specification
MainSteps ==
  \/ MainNext
  \/ MainConnect
  \/ MainStore
  \/ MainExit
  \/ MainServe

\* one request goroutine whose path segment is drawn from paths
ReqSteps(p, paths) ==
  \/ \E path \in paths : databaseMiddleware(p, path)
  \/ getOrConnectDB_lookup(p)
  \/ getOrConnectDB_lookupUnlock(p)
  \/ getOrConnectDB_probe(p)
  \/ getOrConnectDB_evict(p)
  \/ getOrConnectDB_evictUnlock(p)
  \/ getOrConnectDB_checkFail(p)
  \/ getOrConnectDB_checkFailUnlock(p)
  \/ getOrConnectDB_connect(p)
  \/ getOrConnectDB_insert(p)
  \/ getOrConnectDB_insertUnlock(p)
  \/ getOrConnectDB_clearFail(p)
  \/ getOrConnectDB_clearFailUnlock(p)
  \/ getOrConnectDB_recordFail(p)
  \/ getOrConnectDB_recordFailUnlock(p)

HcSteps ==
  \/ hcSnapshot
  \/ hcSnapUnlock
  \/ hcPing
  \/ hcNext
  \/ hcNextUnlock
  \/ hcConnect
  \/ hcInsert
  \/ hcInsertUnlock
  \/ hcSweepDone

\* Two concurrent requests for the same database id, the clock running;
\* database "a" goes down and comes back, "b" stays as it was at boot.
Next ==
  \/ EnvFlip("a")
  \/ Tick
  \/ MainSteps
  \/ \E p \in Reqs : ReqSteps(p, {"A", "a", "x"})

Spec == Init /\ [][Next]_vars

\* Two concurrent requests for different database ids, both databases
\* going down and coming back.
NextTwoIds ==
  \/ \E d \in databases : EnvFlip(d)
  \/ MainSteps
  \/ ReqSteps("r1", {"A"})
  \/ ReqSteps("r2", {"b"})

SpecTwoIds == Init /\ [][NextTwoIds]_vars

\* One request goroutine next to the background health checker.
NextChecker ==
  \/ EnvFlip("a")
  \/ Tick
  \/ MainSteps
  \/ ReqSteps("r1", {"a"})
  \/ HcSteps

SpecChecker == Init /\ [][NextChecker]_vars

\* The whole program: every request goroutine on every path, the health
\* checker, every database going down and coming back.
NextFull ==
  \/ \E d \in databases : EnvFlip(d)
  \/ Tick
  \/ MainSteps
  \/ \E p \in Reqs : ReqSteps(p, PathIds)
  \/ HcSteps
  \/ \E p \in Reqs, m \in Methods, pg \in QueryValues, ps \in QueryValues :
       serveHTTP(p, m, pg, ps)
  \/ \E p \in Reqs : healthCheckHandler(p)
  \/ \E p \in Reqs : readinessCheckHandler(p)
  \/ \E p \in Reqs : ListTransactions(p)
  \/ hcStop
  \/ MainReturn
  \/ ProcessExit

SpecFull == Init /\ [][NextFull]_vars

\* Database "b" is never taken down: once it is reachable it stays so.
\* Both requests call for "b", r1 also for "a", which goes down and comes
\* back.
NextHealthy ==
  \/ EnvFlip("a")
  \/ EnvUp("b")
  \/ Tick
  \/ MainSteps
  \/ ReqSteps("r1", {"a", "b"})
  \/ ReqSteps("r2", {"b"})

SpecHealthy == Init /\ [][NextHealthy]_vars

\* One request goroutine served by the router: every method, every path
\* segment, the two health endpoints and the transactions list.
NextHttp ==
  \/ \E d \in databases : EnvFlip(d)
  \/ MainSteps
  \/ \E m \in Methods : serveHTTP("r1", m, <<>>, <<>>)
  \/ ReqSteps("r1", PathIds)
  \/ healthCheckHandler("r1")
  \/ readinessCheckHandler("r1")
  \/ ListTransactions("r1")

SpecHttp == Init /\ [][NextHttp]_vars

\* GET .../crypto/transactions with every page and page_size of
\* QueryValues.
NextList ==
  \/ EnvFlip("a")
  \/ MainSteps
  \/ \E pg \in QueryValues, ps \in QueryValues : serveHTTP("r1", "GET", pg, ps)
  \/ ReqSteps("r1", {"a"})
  \/ ListTransactions("r1")

SpecList == Init /\ [][NextList]_vars

\* GET .../crypto/transactions on a database that holds rows, page and
\* page_size drawn from PageValues and SizeValues.
NextRepo ==
  \/ EnvFlip("a")
  \/ MainSteps
  \/ \E pg \in PageValues, ps \in SizeValues : serveHTTP("r1", "GET", pg, ps)
  \/ ReqSteps("r1", {"a"})
  \/ ListTransactions("r1")

SpecRepo == InitStored /\ [][NextRepo]_vars

\* POST .../crypto/transactions with every body of PostBodies, the table
\* of database "a" empty at first.
NextCreate ==
  \/ EnvFlip("a")
  \/ MainSteps
  \/ \E b \in PostBodies : servePost("r1", b)
  \/ ReqSteps("r1", {"a"})
  \/ CreateTransaction("r1")

SpecCreate == Init /\ [][NextCreate]_vars

\* One goroutine that posts well-formed bodies to database "a", which
\* already holds rows, and lists its first page.
NextRoundTrip ==
  \/ EnvFlip("a")
  \/ MainSteps
  \/ \E date \in {Jan15, Jan20} : servePost("r1", Body("BTC", "BUY", 1, date))
  \/ \E ps \in {<<"1">>, <<"2">>} : serveHTTP("r1", "GET", <<"1">>, ps)
  \/ ReqSteps("r1", {"a"})
  \/ CreateTransaction("r1")
  \/ ListTransactions("r1")

SpecRoundTrip == InitStored /\ [][NextRoundTrip]_vars

\* One request goroutine on the readiness endpoint and on the transactions
\* routes of database "a", the driver reporting its errors in either
\* wording.
NextTexts ==
  \/ \E d \in databases : EnvFlip(d)
  \/ MainSteps
  \/ serveHTTP("r1", "GET", <<>>, <<>>)
  \/ servePost("r1", Body("BTC", "BUY", 1, Jan15))
  \/ ReqSteps("r1", {"a", "x"})
  \/ readinessCheckHandler("r1")
  \/ ListTransactions("r1")
  \/ CreateTransaction("r1")

SpecTexts == InitTexts /\ [][NextTexts]_vars

\* main up to its call of loadDatabaseConfigs, over the environments the
\* process can be started in: database A by a connection string, by its
\* components or by both, any of them missing or empty; database B by its
\* components; a connection string for the id A_B; ORA_HOME, which names no
\* database.
InitConfig ==
  /\ InitProgram
  /\ table = [d \in databases |-> {}]
  /\ nextSeq = [d \in databases |-> 1]
  /\ errText = "ORA-12541"
  /\ configs = [loaded |-> FALSE, map |-> {}]
  /\ \E dsn \in {Unset, Set(<<>>), Set(DsnText)},
        host \in {Unset, Set(HostText)},
        port \in {Unset} \cup {Set(t) : t \in PortTexts},
        sid \in {Unset, Set(SidText)},
        user \in {Unset, Set(UserText)},
        password \in {Unset, Set(<<>>), Set(PasswordText)},
        bhost \in {Unset, Set(HostText)},
        bpassword \in {Unset, Set(PasswordText)},
        abdsn \in {Unset, Set(DsnText)} :
       environ = EnvKey(<<"A">>, "DSN") :> dsn
                   @@ Components(<<"A">>, host, port, sid, user, password)
                   @@ Components(<<"B">>, bhost, Unset, Set(SidText),
                                 Set(UserText), bpassword)
                   @@ EnvKey(<<"A", "B">>, "DSN") :> abdsn
                   @@ <<"ORA", "HOME">> :> Set(HostText)

NextConfig == MainLoadConfigs

SpecConfig == InitConfig /\ [][NextConfig]_vars

\* The two handlers that range over app.dbs, on one request goroutine,
\* next to a request for database "a" that evicts and inserts.
NextRace ==
  \/ EnvFlip("a")
  \/ MainSteps
  \/ serveHTTP("r1", "GET", <<>>, <<>>)
  \/ readinessCheckHandler("r1")
  \/ listDatabasesHandler("r1")
  \/ ReqSteps("r2", {"a"})

SpecRace == Init /\ [][NextRace]_vars

\* The health checker alone, no request traffic.  The ticker keeps firing
\* and the goroutines keep being scheduled: weak fairness of the checker's
\* and of main's steps.
NextCheckerOnly ==
  \/ \E d \in databases : EnvFlip(d)
  \/ MainSteps
  \/ HcSteps

SpecCheckerLive ==
  Init /\ [][NextCheckerOnly]_vars /\ WF_vars(HcSteps) /\ WF_vars(MainSteps)

\* One request goroutine and the health checker while main returns, the
\* checker's context is cancelled and the process ends.
NextShutdown ==
  \/ EnvFlip("a")
  \/ MainSteps
  \/ ReqSteps("r1", {"a"})
  \/ HcSteps
  \/ hcStop
  \/ MainReturn
  \/ ProcessExit

SpecShutdown == Init /\ [][NextShutdown]_vars

TypeOK ==
  /\ now \in 0..MaxTime
  /\ \A d \in databases : dbs[d] \in 0..MaxHandles

\* ------------------------------------------------------------ claims
InPool(h) == \E d \in databases : dbs[d] = h

\* goroutine p is between opening (or evicting) handle h and the step that
\* inserts (or closes) it
HeldInFlight(h) ==
  \E p \in Procs :
    hloc[p] = h /\ pc[p] \in {"insert", "hcInsert", "mstore", "evictUnlock"}

\* no open handle is left outside the pool
NoLeak == \A h \in Slots : handles[h].st = "open" => InPool(h) \/ HeldInFlight(h)

\* a pool entry only changes from absent to a handle or from a handle to
\* absent, and a handle leaves the pool closed or about to be closed by the
\* goroutine that removed it
ReplaceAfterRemove ==
  \A d \in databases :
    dbs'[d] # dbs[d] =>
      /\ dbs[d] = NoHandle \/ dbs'[d] = NoHandle
      /\ dbs[d] # NoHandle =>
           \/ handles'[dbs[d]].st # "open"
           \/ \E p \in Procs : hloc'[p] = dbs[d] /\ pc'[p] = "evictUnlock"

\* C1: for every database id the pool holds at most one live handle, a
\* handle is removed (and closed) before its replacement is inserted, and no
\* opened handle is left open outside the pool, under every interleaving of
\* requests and health-checker sweeps.
C1_OneHandleNoLeak == [](NoLeak) /\ [][ReplaceAfterRemove]_vars

\* request goroutine p takes a step of its own
Moves(p) == pc'[p] # pc[p]

\* the failure record holds a failure of d younger than the window
YoungFailure(d) == dbFailures[d] # NoFail /\ now - dbFailures[d] < BackoffWindow

\* the failure record holds a failure of d at least as old as the window
ExpiredFailure(d) == dbFailures[d] # NoFail /\ now - dbFailures[d] >= BackoffWindow

\* C2: a getOrConnectDB call that reaches the failure-record check while the
\* record holds a failure younger than 30 seconds returns RecentlyFailed and
\* makes no connection attempt (no handle is opened, the retry loop is not
\* entered, the pool is untouched); this holds for each concurrent caller.
C2_BackoffFailsFast ==
  [][\A p \in Reqs :
       /\ pc[p] = "checkFail" /\ Moves(p) /\ YoungFailure(dbID[p])
            => recent'[p]
       /\ pc[p] = "checkFailUnlock" /\ Moves(p) /\ recent[p]
            => /\ pc'[p] = "idle"
               /\ gcResult'[p] = "RecentlyFailed"
               /\ resp'[p] = "DB_UNAVAILABLE"
               /\ attempt'[p] = 0
               /\ handles' = handles
               /\ dbs' = dbs
       /\ pc'[p] = "connect" /\ pc[p] # "connect" => ~recent[p]]_vars

\* both concurrent callers of the same id were failed fast
C2_Witness ==
  /\ \A p \in Reqs : pc[p] = "idle" /\ gcResult[p] = "RecentlyFailed"
  /\ dbID["r1"] = dbID["r2"]
  /\ YoungFailure(dbID["r1"])

\* C3: once the backoff window has elapsed since the recorded failure, a
\* getOrConnectDB call that reaches the failure-record check makes a real
\* connection attempt, and when the database is reachable at that attempt
\* the call returns a handle.
C3_RetryAfterBackoff ==
  [][\A p \in Reqs :
       /\ pc[p] = "checkFail" /\ Moves(p) /\ ~YoungFailure(dbID[p])
            => ~recent'[p]
       /\ pc[p] = "checkFailUnlock" /\ Moves(p) /\ ~recent[p]
            => pc'[p] = "connect" /\ attempt'[p] = 1
       /\ pc[p] = "connect" /\ env[dbID[p]] = "up"
                            /\ <<pc[p], attempt[p]>>' # <<pc[p], attempt[p]>>
            => /\ pc'[p] = "insert"
               /\ hloc'[p] # NoHandle
               /\ handles'[hloc'[p]] = [db |-> dbID[p], st |-> "open", closes |-> 0]
       /\ pc[p] \in {"insert", "insertUnlock", "clearFail"} /\ Moves(p)
            => pc'[p] \in {"insertUnlock", "clearFail", "clearFailUnlock"}
       /\ pc[p] = "clearFailUnlock" /\ Moves(p)
            => pc'[p] = "idle" /\ gcResult'[p] = "handle"]_vars

\* a re-attempt made after the window has opened a handle while the expired
\* failure is still on record
C3_Witness ==
  \E p \in Reqs :
    /\ pc[p] = "insert"
    /\ ExpiredFailure(dbID[p])
    /\ IsOpen(hloc[p])

\* the failure record of d changes only in the step in which a request
\* whose connection attempt for d failed records the time, or in which a
\* request whose attempt for d succeeded clears the entry
OnlyAttemptsTouchRecord ==
  \A d \in databases :
    dbFailures'[d] # dbFailures[d] =>
      \E p \in Reqs :
        /\ dbID[p] = d
        /\ \/ /\ pc[p] = "recordFail" /\ pc'[p] = "recordFailUnlock"
              /\ dbFailures'[d] = now
           \/ /\ pc[p] = "clearFail" /\ pc'[p] = "clearFailUnlock"
              /\ dbFailures'[d] = NoFail

\* a successful connection attempt for an id ends with no entry for the id:
\* getOrConnectDB's clearing step and the health checker's insert
SuccessClearsRecord ==
  /\ \A p \in Reqs :
       pc[p] = "clearFail" /\ Moves(p) => dbFailures'[dbID[p]] = NoFail
  /\ pc[HC] = "hcInsert" /\ pc'[HC] = "hcInsertUnlock"
       => dbFailures'[dbID[HC]] = NoFail

\* C4: a failure-record entry is created or updated only by a failed
\* connection attempt for its id, no other operation changes it, and after
\* every successful connection attempt for an id the record has no entry
\* for that id.
C4_FailureRecordDiscipline ==
  [][OnlyAttemptsTouchRecord /\ SuccessClearsRecord]_vars

\* a handle was returned by the step p has just taken
ReturnsHandle(p) == pc[p] # "idle" /\ pc'[p] = "idle" /\ gcResult'[p] = "handle"

IOPcs == {"probe", "connect", "hcPing", "hcConnect", "mconnect"}

\* C6: while a goroutine is connecting to or pinging a database it holds
\* neither the pool lock nor the failure-record lock, and a call that has
\* returned (with a handle or an error) holds none either, so a call for
\* another id never waits for it.
C6_NoLockDuringIO ==
  \A p \in Procs :
    pc[p] \in IOPcs \cup {"idle"} => ~HoldsPool(p) /\ ~HoldsFail(p)

\* r1 is retrying its connection to "a" while r2, calling for "b", is
\* inside a critical section
C6_Witness ==
  /\ pc["r1"] = "connect" /\ attempt["r1"] >= 2 /\ dbID["r1"] = "a"
  /\ pc["r2"] \in {"insertUnlock", "clearFailUnlock"} /\ dbID["r2"] = "b"

\* C7: no goroutine holds the pool lock and the failure-record lock at the
\* same time, and whoever holds a lock is at the step that releases it, so
\* the two locks cannot deadlock.
C7_NeverBothLocks ==
  /\ \A p \in Procs : ~(HoldsPool(p) /\ HoldsFail(p))
  /\ \A p \in Procs :
       /\ HoldsPool(p) => pc[p] \in {"lookupUnlock", "evictUnlock",
                                     "insertUnlock", "hcSnapUnlock",
                                     "hcNextUnlock", "hcInsertUnlock"}
       /\ HoldsFail(p) => pc[p] \in {"checkFailUnlock", "clearFailUnlock",
                                     "recordFailUnlock"}

\* both locks are held, by different goroutines
C7_Witness ==
  /\ poolW # NoProc
  /\ failW # NoProc
  /\ poolW # failW

\* both requests were for the same id, each opened a connection of its own
\* in its call, and both have returned
BothOpenedAndReturned ==
  /\ \A p \in Reqs :
       pc[p] = "idle" /\ gcResult[p] = "handle" /\ lastProbe[p] = "pingOk"
  /\ dbID["r1"] = dbID["r2"]

C9_EvictOnce ==
  [][\A p \in Reqs :
       /\ pc[p] = "evict" /\ Moves(p) /\ dbs[dbID[p]] # hloc[p]
            => dbs'[dbID[p]] = dbs[dbID[p]]
       /\ pc[p] = "evictUnlock" /\ Moves(p)
            => /\ pc'[p] = "checkFail"
               /\ handles[hloc[p]].st = "open"
               /\ handles'[hloc[p]].st # "open"
               /\ \A d \in databases : dbs'[d] # hloc[p]]_vars

\* the connection attempt of p has failed for good in this step
AttemptFails(p) ==
  pc[p] = "connect" /\ attempt[p] = maxRetries /\ env[dbID[p]] = "down" /\ Moves(p)

\* C10 as amended: when the connection attempt of getOrConnectDB(id) fails,
\* the call records the current time as the failure time of id, returns
\* ConnectionFailed, and itself leaves the pool map as it is: it inserts no
\* entry for id and changes no entry of another id (the pool has no entry
\* for id unless a concurrent call has inserted one).
C10_FailureRecorded ==
  [][\A p \in Reqs :
       /\ AttemptFails(p)
            => pc'[p] = "recordFail" /\ hloc'[p] = NoHandle /\ dbs' = dbs
       /\ pc[p] = "recordFail" /\ Moves(p)
            => /\ pc'[p] = "recordFailUnlock"
               /\ dbFailures' = [dbFailures EXCEPT ![dbID[p]] = now]
               /\ dbs' = dbs
       /\ pc[p] = "recordFailUnlock" /\ Moves(p)
            => /\ pc'[p] = "idle"
               /\ gcResult'[p] = "ConnectionFailed"
               /\ resp'[p] = "DB_UNAVAILABLE"
               /\ hloc'[p] = NoHandle
               /\ dbs' = dbs]_vars

\* a call has returned ConnectionFailed and the record holds the time of
\* that failure, which is not the time of boot
C10_Witness ==
  \E p \in Reqs :
    /\ pc[p] = "idle" /\ gcResult[p] = "ConnectionFailed"
    /\ dbFailures[dbID[p]] = now /\ now > 0
    /\ dbs[dbID[p]] = NoHandle

\* C10: when the connection attempt of getOrConnectDB(id) fails, the call
\* returns ConnectionFailed, the failure time of id is set to the time of
\* the failure, and the pool map is left with no entry for id and with the
\* entries of all other ids unchanged.
C10_PoolLeftEmpty ==
  [][\A p \in Reqs :
       /\ pc[p] = "recordFail" /\ Moves(p)
            => dbFailures' = [dbFailures EXCEPT ![dbID[p]] = now]
       /\ pc[p] = "recordFailUnlock" /\ Moves(p)
            => /\ gcResult'[p] = "ConnectionFailed"
               /\ dbs' = dbs
               /\ dbs'[dbID[p]] = NoHandle]_vars

\* the database that SpecHealthy never takes down
HealthyId == "b"

\* C11: repeated getOrConnectDB calls for a database that stays healthy all
\* succeed and open nothing: the pooled handle of such a database is open,
\* a call that finds it pooled probes it, gets an answer and returns that
\* same handle, and the call changes neither the pool nor the set of
\* handles.
C11_RepeatedCallsReuseHandle ==
  /\ [](dbs[HealthyId] # NoHandle
          => IsOpen(dbs[HealthyId]) /\ env[HealthyId] = "up")
  /\ [][\A p \in Reqs :
          dbID[p] = HealthyId =>
            /\ pc[p] = "lookup" /\ Moves(p) /\ dbs[HealthyId] # NoHandle
                 => hloc'[p] = dbs[HealthyId] /\ pc'[p] = "lookupUnlock"
            /\ pc[p] = "lookupUnlock" /\ Moves(p) /\ hloc[p] # NoHandle
                 => pc'[p] = "probe"
            /\ pc[p] = "probe" /\ Moves(p)
                 => /\ ReturnsHandle(p)
                    /\ resp'[p] = "next"
                    /\ lastProbe'[p] = "probeOk"
                    /\ hloc'[p] = hloc[p]
                    /\ handles' = handles
                    /\ dbs' = dbs]_vars

\* two calls for the healthy database were each answered by the probe with
\* the one handle the pool holds
C11_Witness ==
  /\ \A p \in Reqs : /\ pc[p] = "idle" /\ dbID[p] = HealthyId
                     /\ gcResult[p] = "handle" /\ lastProbe[p] = "probeOk"
                     /\ hloc[p] = dbs[HealthyId]
  /\ Cardinality({h \in Slots : handles[h].db = HealthyId
                                  /\ handles[h].st = "open"}) = 1

\* the middleware has just answered a request of p whose lower-cased id is
\* not configured
AnswersUnknownId(p) ==
  /\ dbID'[p] \notin databases \cup {NoId}
  /\ <<dbID[p], resp[p], gcResult[p], hloc[p], lastProbe[p]>>'
       # <<dbID[p], resp[p], gcResult[p], hloc[p], lastProbe[p]>>

\* C12: a request whose lower-cased database_id is not configured is
\* answered 404 DB_NOT_FOUND whatever its method; the middleware does not
\* call getOrConnectDB nor the next handler and leaves the pool map and the
\* failure record as they are.
C12_UnknownIdNotFound ==
  /\ [][\A p \in Reqs :
          AnswersUnknownId(p) =>
            /\ resp'[p] = "DB_NOT_FOUND"
            /\ pc'[p] = "idle"
            /\ gcResult'[p] = "none"
            /\ dbs' = dbs
            /\ dbFailures' = dbFailures
            /\ reply' = reply]_vars
  /\ [](\A p \in Reqs :
          dbID[p] \notin databases \cup {NoId} =>
            /\ pc[p] = "idle"
            /\ gcResult[p] = "none"
            /\ resp[p] = "DB_NOT_FOUND")

\* a DELETE for the unknown id "x" was answered DB_NOT_FOUND
C12_Witness ==
  \E p \in Reqs :
    method[p] = "DELETE" /\ dbID[p] = "x" /\ resp[p] = "DB_NOT_FOUND"

\* C13: when getOrConnectDB returns an error for a configured id the
\* middleware answers 503 DB_UNAVAILABLE and does not call next; next is
\* called only with the handle getOrConnectDB returned, which is a handle
\* of exactly the requested id.
C13_ErrorMeansUnavailable ==
  [][\A p \in Reqs :
       /\ pc[p] \notin {"idle", "off"} /\ pc'[p] = "idle"
            => /\ dbID'[p] \in databases
               /\ gcResult'[p] \in {"ConnectionFailed", "RecentlyFailed", "handle"}
               /\ gcResult'[p] # "handle" => resp'[p] = "DB_UNAVAILABLE"
               /\ gcResult'[p] = "handle" => resp'[p] = "next"
       /\ resp'[p] = "next" /\ resp[p] # "next"
            => /\ gcResult'[p] = "handle"
               /\ dbID'[p] = dbID[p]
               /\ hloc'[p] # NoHandle
               /\ handles'[hloc'[p]].db = dbID[p]]_vars

\* one request was refused inside the backoff window, the other one was
\* passed on to its handler
C13_Witness ==
  /\ pc["r1"] = "idle" /\ gcResult["r1"] = "RecentlyFailed"
  /\ resp["r1"] = "DB_UNAVAILABLE"
  /\ pc["r2"] = "idle" /\ resp["r2"] = "next" /\ hloc["r2"] # NoHandle

\* C14: with a non-empty configuration the server reaches the serving
\* state whatever subset of the databases is reachable at boot, none
\* included: the startup loop is always followed by app.serve() and the
\* process is never ended because databases are unreachable.
C14_BootAlwaysServes ==
  /\ [][pc[MAIN] = "boot" /\ mainTodo = {} /\ Moves(MAIN)
          => pc'[MAIN] = "serving"]_vars
  /\ [](pc[MAIN] # "exited")

\* C15: with the health checker running and no request traffic, a
\* configured database that is reachable from some moment on is eventually
\* in the pool with a live handle.
C15_CheckerRecovers ==
  \A d \in databases :
    <>[](env[d] = "up" /\ pc[MAIN] = "serving") => <>(IsOpen(dbs[d]))

\* a sweep of the checker has just stored the handle of a database that
\* was missing from the pool
C15_Witness ==
  /\ pc[HC] = "hcInsertUnlock"
  /\ dbs[dbID[HC]] = hloc[HC]
  /\ IsOpen(hloc[HC])
  /\ \A p \in Reqs : pc[p] = "idle" /\ dbID[p] = NoId

\* C16: once the checker's context is cancelled the checker starts no
\* further sweep, and when it has returned (its ticker stopped) it holds no
\* handle that is open and outside the pool.  (That it returns at all is a
\* liveness statement and not part of this formula.)
C16_CancelStopsChecker ==
  /\ [][cancelled /\ pc[HC] = "hcWait" => pc'[HC] # "hcSnapUnlock"]_vars
  /\ [](pc[HC] = "hcDone"
          => hloc[HC] = NoHandle \/ ~IsOpen(hloc[HC]) \/ InPool(hloc[HC]))

\* C17: when the process has terminated every pooled handle has been
\* closed exactly once and no handle at all is open, whatever calls or
\* sweeps were in flight.
C17_ShutdownClosesPool ==
  pc[MAIN] = "terminated" =>
    /\ \A d \in databases :
         dbs[d] # NoHandle => /\ handles[dbs[d]].st = "closed"
                              /\ handles[dbs[d]].closes = 1
    /\ \A h \in Slots : handles[h].st # "open"

\* handler h has just written the reply of p
Replies(p, h) == reply'[p] # reply[p] /\ reply'[p].by = h

\* the configured databases that are pooled and answer a ping
HealthySet == {d \in databases : PingOK(dbs[d], d)}

\* C18: GET /health/readiness reports not_ready exactly when none of the
\* configured databases is healthy, degraded exactly when some but not all
\* of them are, and ready exactly when all are; a configured database that
\* is down or not connected makes the status degraded, not ready.
C18_ReadinessStatus ==
  [][\A p \in Reqs :
       Replies(p, "readiness") =>
         /\ reply'[p].status = "not_ready" <=> HealthySet = {}
         /\ reply'[p].status = "degraded"
              <=> HealthySet # {} /\ HealthySet # databases
         /\ reply'[p].status = "ready" <=> HealthySet = databases]_vars

\* C19: GET /health answers 200 with status "ok" in every state of the
\* pool and of the databases, and the handler changes nothing but the
\* reply: no handle is opened, probed or closed, the pool map and the
\* failure record stay as they are.
C19_HealthAlwaysOk ==
  [][\A p \in Reqs :
       Replies(p, "health") =>
         /\ reply'[p].code = 200
         /\ reply'[p].status = "ok"
         /\ UNCHANGED <<dbs, dbFailures, handles, locks, lastProbe, hloc,
                        pc, resp, gcResult>>]_vars

\* /health was answered "ok" while every database is down and the pool is
\* empty
C19_Witness ==
  \E p \in Reqs :
    /\ reply[p].by = "health" /\ reply[p].code = 200
    /\ \A d \in databases : env[d] = "down" /\ dbs[d] = NoHandle

\* the page the claim's rule gives for each raw value of QueryValues
ClaimedPage(q) ==
  CASE q = <<"1">> -> 1
    [] q = <<"2">> -> 2
    [] q = <<"+", "3">> -> 3
    [] q = <<"0", "5">> -> 5
    [] q = <<"1", "0", "0">> -> 100
    [] q = <<"1", "0", "1">> -> 101
    [] OTHER -> 1

\* the page size the claim's rule gives for each raw value of QueryValues
ClaimedPageSize(q) ==
  CASE q = <<"1">> -> 1
    [] q = <<"2">> -> 2
    [] q = <<"+", "3">> -> 3
    [] q = <<"0", "5">> -> 5
    [] q = <<"1", "0", "0">> -> 100
    [] q = <<"1", "0", "1">> -> 100
    [] OTHER -> 20

\* C20: the (page, pageSize) pair ListTransactions passes to the repository
\* has page >= 1 and 1 <= pageSize <= 100; page is the given value when it
\* parses as an integer >= 1 and 1 otherwise; pageSize is 20 when the
\* parameter is left out, does not parse or is <= 0, 100 when it is > 100,
\* the given value otherwise; a 200 response echoes the same pair.
C20_PaginationClamped ==
  [][\A p \in Reqs :
       Replies(p, "list") =>
         /\ repoArgs'[p] = <<ClaimedPage(query[p].page),
                             ClaimedPageSize(query[p].page_size)>>
         /\ repoArgs'[p][1] >= 1
         /\ repoArgs'[p][2] >= 1 /\ repoArgs'[p][2] <= 100
         /\ reply'[p].code = 200
              => <<reply'[p].page, reply'[p].pageSize>> = repoArgs'[p]]_vars

\* page_size=101 was clamped to 100 and page=+3 taken as 3
C20_Witness ==
  \E p \in Reqs :
    /\ query[p] = [page |-> <<"+", "3">>, page_size |-> <<"1", "0", "1">>]
    /\ repoArgs[p] = <<3, 100>>
    /\ reply[p].code = 200 /\ reply[p].page = 3 /\ reply[p].pageSize = 100

\* rows of t that the ordering (transaction_date descending, then
\* transactions_seq descending) puts before row r
RowsBefore(r, t) ==
  {o \in t :
     LET a == o.transaction_date
         b == r.transaction_date
     IN \/ a.y > b.y
        \/ a.y = b.y /\ a.m > b.m
        \/ a.y = b.y /\ a.m = b.m /\ a.d > b.d
        \/ a = b /\ o.transactions_seq > r.transactions_seq}

\* position of row r in the sorted table t, counted from 1
Position(r, t) == Cardinality(RowsBefore(r, t)) + 1

\* rows of t at the positions (page-1)*pageSize+1 .. page*pageSize
OnPage(t, page, pageSize) ==
  {r \in t : (Position(r, t) - 1) \div pageSize = page - 1}

\* the sequence rows holds exactly the rows of t that belong on the page,
\* in the order of their positions
IsPage(rows, t, page, pageSize) ==
  /\ Len(rows) = Cardinality(OnPage(t, page, pageSize))
  /\ \A r \in OnPage(t, page, pageSize) :
       LET i == ((Position(r, t) - 1) % pageSize) + 1
       IN i <= Len(rows) /\ rows[i].transactions_seq = r.transactions_seq

\* C21: for every page >= 1 and pageSize in 1..100 and every table, the
\* rows a 200 answer of the list carries are at most pageSize many and are
\* exactly the rows at positions (page-1)*pageSize+1 .. page*pageSize of
\* the table sorted by date descending, then key descending.
C21_PageIsSliceOfSortedTable ==
  \A p \in Reqs :
    (reply[p].by = "list" /\ reply[p].code = 200) =>
      LET page == repoArgs[p][1]
          pageSize == repoArgs[p][2]
      IN (page >= 1 /\ pageSize \in 1..100) =>
           /\ Len(reply[p].rows) <= pageSize
           /\ IsPage(reply[p].rows, table[dbID[p]], page, pageSize)

\* the first check of the claimed order that the body req fails: 1 JSON
\* parseable, 2 transaction_date is YYYY-MM-DD, 3 coin_symbol non-empty,
\* 4 transaction_type non-empty, 5 quantity > 0; 0 when it passes all
FirstFailing(req) ==
  IF ~req.json THEN 1
  ELSE IF ParseDateOnly(req.transaction_date).err THEN 2
  ELSE IF req.coin_symbol = "" THEN 3
  ELSE IF req.transaction_type = "" THEN 4
  ELSE IF req.quantity <= 0 THEN 5
  ELSE 0

\* C22: CreateTransaction answers 400 to every body that fails one of the
\* five checks (JSON, date, coin_symbol, transaction_type, quantity), and
\* two bodies whose first failing checks differ get different answers.
C22_ValidationOrder ==
  [][\A p \in Reqs :
       (Replies(p, "create") /\ FirstFailing(reqBody[p]) # 0) =>
         /\ reply'[p].code = 400
         /\ \A q \in Reqs :
              (reply'[q].by = "create" /\ reply'[q].code = 400
                 /\ FirstFailing(reqBody'[q]) # FirstFailing(reqBody[p]))
                => reply'[q].text # reply'[p].text]_vars

\* the body fails json.Decode or carries a transaction_date that is not a
\* YYYY-MM-DD date
Malformed(req) == ~req.json \/ ParseDateOnly(req.transaction_date).err

\* C23: a CreateTransaction that answers 400 has not called the
\* repository and leaves every table as it was; unparsable JSON and a date
\* that is empty or not YYYY-MM-DD are answered 400; a body with
\* well-formed JSON and date is passed to the repository and answered 201
\* once the repository call has returned without an error (C25 covers the
\* call that returns one).
C23_RejectedNotStored ==
  [][\A p \in Reqs :
       Replies(p, "create") =>
         /\ reply'[p].code = 400 =>
              (dbCall'[p] = "none" /\ table' = table /\ nextSeq' = nextSeq)
         /\ Malformed(reqBody[p]) => reply'[p].code = 400
         /\ ~Malformed(reqBody[p]) =>
              /\ dbCall'[p] # "none"
              /\ dbCall'[p] = "ok" =>
                   (reply'[p].code = 201 /\ table' # table)]_vars

\* a date in the form 01/15/2024 was answered 400 and nothing is stored
C23_Witness ==
  /\ reply["r1"].by = "create"
  /\ reply["r1"].code = 400
  /\ reqBody["r1"].json
  /\ reqBody["r1"].transaction_date = UsDate
  /\ dbCall["r1"] = "none"
  /\ table["a"] = {}

\* C25: when the repository's CreateTransaction returns an error (a
\* driver error or context.DeadlineExceeded) for a body that passed
\* validation, the handler answers 500; it answers 201 only when the call
\* returned no error.
C25_RepositoryErrorIs500 ==
  [][\A p \in Reqs :
       Replies(p, "create") =>
         /\ dbCall'[p] \in {"driverError", "deadlineExceeded"} =>
              reply'[p].code = 500
         /\ reply'[p].code = 201 => dbCall'[p] = "ok"]_vars

\* the deadline expired during the INSERT of a valid body: 500
C25_Witness ==
  /\ reply["r1"].by = "create"
  /\ reply["r1"].code = 500
  /\ ~Malformed(reqBody["r1"])
  /\ dbCall["r1"] = "deadlineExceeded"

\* the record created last in database "a": the row with the latest key
NewRow == CHOOSE r \in table["a"] : r.transactions_seq = nextSeq["a"] - 1

\* the YYYY-MM-DD text of a stored date: the text the handler accepted
DateOnlyText(dt) ==
  FourDigits(dt.y) \o <<"-">> \o TwoDigits(dt.m) \o <<"-">> \o TwoDigits(dt.d)

\* this step answers r1's POST with 201, and the record it created holds
\* the supplied coin_symbol, transaction_type, quantity and date
CreatesAsSupplied ==
  (Replies("r1", "create") /\ reply'["r1"].code = 201) =>
    LET new == CHOOSE r \in table'["a"] :
                 r.transactions_seq = nextSeq'["a"] - 1
    IN /\ table'["a"] = table["a"] \cup {new}
       /\ new \notin table["a"]
       /\ new.coin_symbol = reqBody["r1"].coin_symbol
       /\ new.transaction_type = reqBody["r1"].transaction_type
       /\ new.quantity = reqBody["r1"].quantity
       /\ DateOnlyText(new.transaction_date) = reqBody["r1"].transaction_date

\* this step answers r1's list of page 1 with 200 after a record was
\* created
ListsFirstPage ==
  /\ Replies("r1", "list")
  /\ reply'["r1"].code = 200
  /\ reply'["r1"].page = 1
  /\ table["a"] # {}

\* the listed row x is NewRow with the values it was created with
SameRecord(x) ==
  /\ x.transactions_seq = NewRow.transactions_seq
  /\ x.coin_symbol = NewRow.coin_symbol
  /\ x.transaction_type = NewRow.transaction_type
  /\ x.quantity = NewRow.quantity

\* no stored record has a later transaction_date than NewRow
NoLaterDate ==
  \A o \in table["a"] :
    \/ o.transaction_date = NewRow.transaction_date
    \/ NewRow \in RowsBefore(o, table["a"])

C26_DeadlineIs504 ==
  [][\A p \in Reqs :
       (dbCall'[p] = "deadlineExceeded" /\ dbCall[p] # "deadlineExceeded") =>
         reply'[p].code = 504]_vars

\* C27: no response written after a connection-layer or driver error
\* carries the driver's error text, so that two runs which differ only in
\* that text answer alike; for the database middleware, the transaction
\* handlers and the readiness endpoint.
C27_NoDriverTextInResponse ==
  \A p \in Reqs : reply[p].text \cap DriverTexts = {}

\* the configuration carries a connection string
HasConnectionString(cfg) == "DSN" \in DOMAIN cfg /\ cfg.DSN # <<>>

\* the configuration carries all five connection components
HasComponents(cfg) ==
  /\ cfg.Host # <<>> /\ cfg.Port # 0 /\ cfg.SID # <<>>
  /\ cfg.User # <<>> /\ cfg.Password # <<>>

\* the environment gives id a connection string, or all its components
ByConnectionString(id) == Getenv(environ, EnvKey(id, "DSN")) # <<>>

ByComponents(id) ==
  \A f \in {"HOST", "SID", "USER", "PASSWORD"} :
    Getenv(environ, EnvKey(id, f)) # <<>>

\* C28: every configuration loadDatabaseConfigs returns has a non-empty
\* lower-case id equal to its map key and carries a non-empty connection
\* string or all five components, whether the id was configured by a
\* connection string or by components; an id with incomplete components is
\* left out and takes no other id with it.
C28_ConfigsWellFormed ==
  configs.loaded =>
    /\ \A c \in configs.map :
         /\ c.key # <<>>
         /\ c.key = LowerID(c.key)
         /\ c.cfg.ID = c.key
         /\ HasConnectionString(c.cfg) \/ HasComponents(c.cfg)
    /\ \A id \in foundIDs(environ) :
         (\E c \in configs.map : c.key = LowerID(id)) <=>
           (ByConnectionString(id) \/ ByComponents(id))

\* goroutine p reads the pool map in this step: one of the handlers that
\* range over it answers, or the runtime stops the process in the range
ReadsPoolMap(p) ==
  \/ Replies(p, "readiness")
  \/ Replies(p, "databases")
  \/ (pc[p] = "idle" /\ pc'[p] = "crashed")

\* goroutine p writes the pool map in this step
WritesPoolMap(p) == dbs' # dbs /\ pc'[p] # pc[p] /\ pc'[p] # "crashed"

\* C29: every read of the pool map by a request goroutine or the health
\* checker is made while the goroutine holds the map's lock, for reading or
\* for writing, and every write while it holds the lock for writing; so no
\* read of the map overlaps a write section of another goroutine.
C29_PoolMapUnderLock ==
  [][/\ \A p \in Reqs :
          ReadsPoolMap(p) => (HoldsPool(p) /\ poolW \in {NoProc, p})
     /\ \A p \in Reqs \cup {HC} : WritesPoolMap(p) => poolW' = p]_vars

\* goroutine p is inside the retry loop of openDatabase
InOpenDatabase(p) == pc[p] \in {"mconnect", "hcConnect", "connect"}

\* p makes one attempt of the loop in this step
Attempts(p) ==
  InOpenDatabase(p) /\ (pc'[p] # pc[p] \/ attempt'[p] # attempt[p])

\* openDatabase returns a handle to p, or an error, in this step
OpenReturnsHandle(p) ==
  InOpenDatabase(p) /\ pc'[p] \in {"mstore", "hcInsert", "insert"}

OpenReturnsError(p) ==
  InOpenDatabase(p) /\ pc'[p] \in {"boot", "hcNext", "recordFail"}

\* the attempts of a call are numbered 1 to maxRetries, one after the other
AttemptsBounded ==
  /\ [](\A p \in Procs : InOpenDatabase(p) => attempt[p] \in 1..maxRetries)
  /\ [][\A p \in Procs :
          (Attempts(p) /\ ~OpenReturnsHandle(p) /\ ~OpenReturnsError(p)) =>
            attempt'[p] = attempt[p] + 1]_vars

\* a handle is returned by the attempt, and only by the attempt, that
\* opened and pinged; it is that attempt's handle, open
ReturnsFirstVerified ==
  [][\A p \in Procs :
       Attempts(p) =>
         /\ OpenReturnsHandle(p) <=> env[dbID[p]] = "up"
         /\ OpenReturnsHandle(p) =>
              /\ hloc'[p] # NoHandle
              /\ handles[hloc'[p]].st = "free"
              /\ handles'[hloc'[p]] =
                   [db |-> dbID[p], st |-> "open", closes |-> 0]
              /\ lastProbe'[p] = "pingOk"
         /\ OpenReturnsError(p) => attempt[p] = maxRetries]_vars

\* an attempt that does not return a handle leaves no handle open that was
\* not open before, and none with the caller
FailedAttemptsClosed ==
  [][\A p \in Procs :
       (Attempts(p) /\ ~OpenReturnsHandle(p)) =>
         /\ hloc'[p] = NoHandle
         /\ \A h \in Slots :
              handles'[h].st = "open" => handles[h].st = "open"]_vars

\* C30: openDatabase makes at most 3 attempts and always terminates; it
\* returns a handle exactly when an attempt opened and pinged, the handle of
\* the first such attempt; when it returns an error every handle opened in
\* a failed attempt has been closed.
C30_OpenDatabaseRetries ==
  /\ AttemptsBounded
  /\ ReturnsFirstVerified
  /\ FailedAttemptsClosed
  /\ \A p \in {MAIN, HC} : InOpenDatabase(p) ~> ~InOpenDatabase(p)

\* main's openDatabase returned an error after three attempts, the last of
\* which opened a handle whose ping failed; no handle is open
C30_Witness ==
  /\ pc[MAIN] = "boot"
  /\ dbID[MAIN] # NoId
  /\ attempt[MAIN] = 0
  /\ lastProbe[MAIN] = "pingFail"
  /\ hloc[MAIN] = NoHandle
  /\ \A h \in Slots : handles[h].st # "open"
====
